---- MODULE Spec2Model ----
(***************************************************************************)
(* youtube-transcript-api: the transcript-list retrieval pipeline of       *)
(* youtube_transcript_api/_transcripts.py (TranscriptListFetcher), the     *)
(* block exceptions of _errors.py and the proxy configurations of          *)
(* proxies.py, as a state machine.  One run of the machine is one call of  *)
(* TranscriptListFetcher.fetch(video_id), optionally followed by one       *)
(* Transcript.fetch on a track of the returned list.                       *)
(* The pure functions of the package (the extractor, build, the find       *)
(* operations, translate, the caption parser, get_transcripts of _api.py)  *)
(* are applied on their own, and a fetch_bulk call of                      *)
(* _transcripts_async.py runs as coroutines over a semaphore.              *)
(***************************************************************************)
EXTENDS Integers, Sequences, FiniteSets, TLC

\* ------------------------------------------------------------------ bounds
\* Largest retries_when_blocked a WebshareProxyConfig is constructed with.
MaxRetries == 5

\* --------------------------------------------------------------- constants
\* Python's None and a key that a dict does not hold.
None == "<None>"
Absent == "<absent>"

\* _PlayabilityStatus
STATUS_OK == "OK"
STATUS_ERROR == "ERROR"
STATUS_LOGIN_REQUIRED == "LOGIN_REQUIRED"

\* _PlayabilityFailedReason
BOT_DETECTED == "Sign in to confirm you're not a bot"
AGE_RESTRICTED == "Sign in to confirm your age"
VIDEO_UNAVAILABLE == "Video unavailable"

\* RequestBlocked / IpBlocked cause texts (named by the class attribute).
CAUSE_MESSAGE(type) == <<type, "CAUSE_MESSAGE">>
WITH_GENERIC_PROXY_CAUSE_MESSAGE == <<"RequestBlocked", "WITH_GENERIC_PROXY_CAUSE_MESSAGE">>
WITH_WEBSHARE_PROXY_CAUSE_MESSAGE == <<"RequestBlocked", "WITH_WEBSHARE_PROXY_CAUSE_MESSAGE">>

\* ------------------------------------------------------ proxy configuration
\* self._proxy_config of the fetcher: None, a GenericProxyConfig or a
\* WebshareProxyConfig (a subclass of GenericProxyConfig).
NoProxy == [kind |-> "None", retries |-> 0]

\* ProxyConfig.retries_when_blocked: the base class property returns 0.
GenericProxyConfig == [kind |-> "Generic", retries |-> 0]

\* WebshareProxyConfig(retries_when_blocked = n): the property returns n.
WebshareProxyConfig(n) == [kind |-> "Webshare", retries |-> n]

ProxyConfigs ==
    {NoProxy, GenericProxyConfig} \cup {WebshareProxyConfig(n) : n \in 0..MaxRetries}

\* isinstance(proxy_config, GenericProxyConfig): true of the subclass too.
IsGenericProxyConfig(pc_) == pc_.kind \in {"Generic", "Webshare"}

IsWebshareProxyConfig(pc_) == pc_.kind = "Webshare"

\* ---------------------------------------------------------------- video ids
\* Video ids as character sequences (str.startswith reads them).
HTTP_PREFIX == <<"h", "t", "t", "p", ":", "/", "/">>
HTTPS_PREFIX == <<"h", "t", "t", "p", "s", ":", "/", "/">>

VideoIds ==
    { <<"a", "b", "c">>,
      HTTP_PREFIX \o <<"y">>,
      HTTPS_PREFIX \o <<"y">>,
      <<"h", "t", "t", "p">> }

\* The video ids fetch is called with.
FetchVideoIds == { <<"a", "b", "c">>, HTTPS_PREFIX \o <<"y">> }

\* startswith as an equality test: an id longer than the prefix does not match.
startswith_equal(s, prefix) == s = prefix

\* str.startswith(prefix)
startswith(s, prefix) ==
    /\ Len(s) >= Len(prefix)
    /\ SubSeq(s, 1, Len(prefix)) = prefix

\* --------------------------------------------------------------- exceptions
\* An exception instance: its class, the video id it carries, the attempt
\* (try_number) in which it was constructed, and the fields of the classes
\* that have any (RequestBlocked._proxy_config, VideoUnplayable.reason and
\* sub_reasons).
Exc(type, vid, try) ==
    [ kind |-> "exception", type |-> type, video_id |-> vid, raised_in |-> try,
      proxy_config |-> NoProxy, annotated |-> FALSE,
      reason |-> None, sub_reasons |-> << >> ]

\* except CouldNotRetrieveTranscript: every failure of the pipeline is caught.
IsRequestBlocked_any(e) == TRUE

\* except RequestBlocked: the class and its subclass IpBlocked.
IsRequestBlocked(e) == e.type \in {"RequestBlocked", "IpBlocked"}

\* RequestBlocked.with_proxy_config: stores the configuration, returns self.
with_proxy_config(e, proxy) ==
    [e EXCEPT !.proxy_config = proxy, !.annotated = TRUE]

\* cause with the isinstance tests in the other order: the base class is
\* tested first and hides the subclass.
cause_generic_first(e) ==
    IF IsGenericProxyConfig(e.proxy_config)
    THEN WITH_GENERIC_PROXY_CAUSE_MESSAGE
    ELSE IF IsWebshareProxyConfig(e.proxy_config)
         THEN WITH_WEBSHARE_PROXY_CAUSE_MESSAGE
         ELSE CAUSE_MESSAGE(e.type)

\* RequestBlocked.cause
cause(e) ==
    IF IsWebshareProxyConfig(e.proxy_config)
    THEN WITH_WEBSHARE_PROXY_CAUSE_MESSAGE
    ELSE IF IsGenericProxyConfig(e.proxy_config)
         THEN WITH_GENERIC_PROXY_CAUSE_MESSAGE
         ELSE CAUSE_MESSAGE(e.type)

\* ------------------------------------------------------- the embedded config
\* video_data["playabilityStatus"]: present or not; its "status" and "reason"
\* (Absent when the key is missing) and the runs of
\* errorScreen.playerErrorMessageRenderer.subreason (has_runs is FALSE when a
\* key on that path is missing).
PlayabilityStatusData(present, status, reason, has_runs, runs) ==
    [ present |-> present, status |-> status, reason |-> reason,
      has_runs |-> has_runs, runs |-> runs ]

NoPlayabilityStatus == PlayabilityStatusData(FALSE, Absent, Absent, FALSE, << >>)

Statuses == {Absent, STATUS_OK, STATUS_ERROR, STATUS_LOGIN_REQUIRED, "UNPLAYABLE"}

Reasons == {Absent, BOT_DETECTED, AGE_RESTRICTED, VIDEO_UNAVAILABLE, "Custom Reason"}

\* A run of the subreason: its "text", Absent when the run has no such key.
RunLists ==
    { << >>,
      << [text |-> "Sub Reason 1"], [text |-> "Sub Reason 2"] >>,
      << [text |-> Absent] >> }

\* dict.get(key, default) on a value that is Absent when the key is missing.
get(value, default) == IF value = Absent THEN default ELSE value

\* dict.get(key): None when the key is missing.
get_or_none(value) == get(value, None)

\* [run.get("text", "") for run in subreasons]
RECURSIVE run_texts(_)
run_texts(runs) ==
    IF runs = << >>
    THEN << >>
    ELSE << get(Head(runs).text, "") >> \o run_texts(Tail(runs))

\* .get("errorScreen", {}).get("playerErrorMessageRenderer", {})
\*     .get("subreason", {}).get("runs", [])
subreasons_of(psd) == IF psd.has_runs THEN psd.runs ELSE << >>

VideoUnplayable(vid, try, reason, sub_reasons) ==
    [Exc("VideoUnplayable", vid, try) EXCEPT !.reason = reason, !.sub_reasons = sub_reasons]

Pass == [kind |-> "pass"]

\* TranscriptListFetcher._assert_playability: Pass when it returns, the
\* exception when it raises.  playability_status_data.get on None (the key
\* "playabilityStatus" is missing) is an AttributeError.
assert_playability(psd, vid, try) ==
    IF ~psd.present
    THEN Exc("AttributeError", vid, try)
    ELSE LET playability_status == get_or_none(psd.status)
             reason == get_or_none(psd.reason)
         IN  IF playability_status # STATUS_OK /\ playability_status # None
             THEN IF /\ playability_status = STATUS_LOGIN_REQUIRED
                     /\ reason = BOT_DETECTED
                  THEN Exc("RequestBlocked", vid, try)
                  ELSE IF /\ playability_status = STATUS_LOGIN_REQUIRED
                          /\ reason = AGE_RESTRICTED
                  THEN Exc("AgeRestricted", vid, try)
                  ELSE IF /\ playability_status = STATUS_ERROR
                          /\ reason = VIDEO_UNAVAILABLE
                  THEN IF startswith(vid, HTTP_PREFIX) \/ startswith(vid, HTTPS_PREFIX)
                       THEN Exc("InvalidVideoId", vid, try)
                       ELSE Exc("VideoUnavailable", vid, try)
                  ELSE VideoUnplayable(vid, try, reason, run_texts(subreasons_of(psd)))
             ELSE Pass

\* An entry of captionTracks, by the keys TranscriptList.build reads. baseUrl,
\* name (the value of name.simpleText), languageCode and kind are Absent when
\* the key is missing; isTranslatable is the truth of
\* caption.get("isTranslatable", False).
CaptionTrack(baseUrl, name, languageCode, kind, isTranslatable) ==
    [ baseUrl |-> baseUrl, name |-> name, languageCode |-> languageCode,
      kind |-> kind, isTranslatable |-> isTranslatable ]

\* The display name the platform gives a language code.
LanguageName(code) ==
    CASE code = "en" -> "English"
      [] code = "de" -> "German"
      [] code = "cs" -> "Czech"
      [] OTHER -> code

\* A caption track with every key but, possibly, kind ("asr" or Absent).
Track(code, kind) ==
    CaptionTrack("/api/timedtext?lang=" \o code \o (IF kind = "asr" THEN "&kind=asr" ELSE ""),
                 LanguageName(code) \o (IF kind = "asr" THEN " (auto-generated)" ELSE ""),
                 code, kind, TRUE)

\* An entry of translationLanguages: languageName.simpleText and
\* languageCode, Absent when the key is missing.
TranslationLanguageData(name, code) == [languageName |-> name, languageCode |-> code]

\* video_data["captions"]: how far the path
\* captions.playerCaptionsTracklistRenderer.captionTracks exists, the track
\* list at its end, and the renderer's translationLanguages when it has the
\* key.
CaptionsData(level, tracks, has_translation_languages, translationLanguages) ==
    [ level |-> level, tracks |-> tracks,
      has_translation_languages |-> has_translation_languages,
      translationLanguages |-> translationLanguages ]

\* A renderer without translationLanguages.
Captions(level, tracks) == CaptionsData(level, tracks, FALSE, << >>)

CaptionsCases ==
    { Captions("NoCaptions", << >>),
      Captions("NoRenderer", << >>),
      Captions("NoCaptionTracks", << >>),
      Captions("CaptionTracks", << >>),
      Captions("CaptionTracks", << Track("en", Absent) >>),
      Captions("CaptionTracks", << Track("en", Absent), Track("en", "asr") >>),
      Captions("CaptionTracks", << CaptionTrack(Absent, "English", "en", Absent, TRUE) >>) }

\* captions_json is None or "captionTracks" not in captions_json
captions_json_missing(captions) ==
    captions.level \in {"NoCaptions", "NoRenderer", "NoCaptionTracks"}

\* ------------------------------------------------------------ HTTP responses
\* A response to GET WATCH_URL, by what the fetcher reads of its unescaped
\* text (_fetch_html returns unescape(response.text)):
\*   ok       raise_for_status() passes (a 2xx status)
\*   consent  the text contains 'action="https://consent.youtube.com/s"'
\*   token    group 1 of 'name="v" value="(.*?)"', None when there is no match
\*   captcha  the text contains 'class="g-recaptcha"'
\*   parsed   _JsVarParser("ytInitialPlayerResponse").parse returns video_data
\*            (FALSE: it raises YouTubeDataUnparsable)
\*   playability, captions   the keys of video_data the fetcher reads
Page(ok, consent, token, captcha, parsed, playability, captions) ==
    [ ok |-> ok, consent |-> consent, token |-> token, captcha |-> captcha,
      parsed |-> parsed, playability |-> playability, captions |-> captions ]

NoPage == Page(FALSE, FALSE, None, FALSE, FALSE, NoPlayabilityStatus, Captions("NoCaptions", << >>))

ConsentTokens == {"cb.20210328-17-p0.de+FX+119"}

\* The playability fragments the watch pages of the pipeline carry.
PagePlayability ==
    { NoPlayabilityStatus,
      PlayabilityStatusData(TRUE, STATUS_OK, Absent, FALSE, << >>),
      PlayabilityStatusData(TRUE, Absent, Absent, FALSE, << >>),
      PlayabilityStatusData(TRUE, STATUS_LOGIN_REQUIRED, BOT_DETECTED, FALSE, << >>),
      PlayabilityStatusData(TRUE, STATUS_LOGIN_REQUIRED, AGE_RESTRICTED, FALSE, << >>),
      PlayabilityStatusData(TRUE, STATUS_ERROR, VIDEO_UNAVAILABLE, FALSE, << >>),
      PlayabilityStatusData(TRUE, STATUS_ERROR, "Custom Reason", TRUE,
                            << [text |-> "Sub Reason 1"], [text |-> "Sub Reason 2"] >>) }

WatchPages ==
    { Page(FALSE, FALSE, None, FALSE, FALSE, NoPlayabilityStatus, Captions("NoCaptions", << >>)) }
    \cup { Page(TRUE, TRUE, t, FALSE, FALSE, NoPlayabilityStatus, Captions("NoCaptions", << >>)) :
             t \in ConsentTokens \cup {None} }
    \cup { Page(TRUE, FALSE, None, c, FALSE, NoPlayabilityStatus, Captions("NoCaptions", << >>)) :
             c \in BOOLEAN }
    \cup { Page(TRUE, FALSE, None, c, TRUE, p, cap) :
             c \in BOOLEAN, p \in PagePlayability, cap \in CaptionsCases }

\* A response to GET of a caption track's URL: raise_for_status() passes or not.
CaptionResponses == BOOLEAN

\* --------------------------------------------------------------- extraction
CaptionsJson(captions) ==
    [ kind |-> "captions_json", tracks |-> captions.tracks,
      has_translation_languages |-> captions.has_translation_languages,
      translationLanguages |-> captions.translationLanguages ]

\* _extract_captions_json with the CAPTCHA marker looked at before the
\* extraction is tried.
extract_captions_json_captcha_first(html, vid, try) ==
    IF html.captcha
    THEN Exc("IpBlocked", vid, try)
    ELSE IF ~html.parsed
         THEN Exc("YouTubeDataUnparsable", vid, try)
         ELSE LET playable == assert_playability(html.playability, vid, try)
              IN  IF playable.kind # "pass"
                  THEN playable
                  ELSE IF captions_json_missing(html.captions)
                       THEN Exc("TranscriptsDisabled", vid, try)
                       ELSE CaptionsJson(html.captions)

\* TranscriptListFetcher._extract_captions_json: the captions_json it
\* returns, or the exception it raises.
extract_captions_json(html, vid, try) ==
    IF ~html.parsed
    THEN IF html.captcha
         THEN Exc("IpBlocked", vid, try)
         ELSE Exc("YouTubeDataUnparsable", vid, try)
    ELSE LET playable == assert_playability(html.playability, vid, try)
         IN  IF playable.kind # "pass"
             THEN playable
             ELSE IF captions_json_missing(html.captions)
                  THEN Exc("TranscriptsDisabled", vid, try)
                  ELSE CaptionsJson(html.captions)

\* ---------------------------------------------------------- TranscriptList
\* _TranslationLanguage
TranslationLanguage(language, language_code) ==
    [language |-> language, language_code |-> language_code]

\* dict[key] = value
dict_set(d, key, value) ==
    [k \in DOMAIN d \cup {key} |-> IF k = key THEN value ELSE d[k]]

EmptyDict == [k \in {} |-> None]

\* {tl.language_code: tl.language for tl in translation_languages}: a later
\* entry replaces an earlier one of the same code.
RECURSIVE translation_languages_dict(_)
translation_languages_dict(translation_languages) ==
    IF translation_languages = << >>
    THEN EmptyDict
    ELSE LET n == Len(translation_languages)
             tl == translation_languages[n]
             front == translation_languages_dict(SubSeq(translation_languages, 1, n - 1))
         IN  dict_set(front, tl.language_code, tl.language)

\* Transcript.__init__
NewTranscript(vid, url, language, language_code, is_generated, translation_languages) ==
    [ kind |-> "Transcript", video_id |-> vid, url |-> url, language |-> language,
      language_code |-> language_code, is_generated |-> is_generated,
      translation_languages |-> translation_languages,
      translation_languages_dict |-> translation_languages_dict(translation_languages) ]

\* The Transcript build constructs for a caption track with all its keys.
Transcript(vid, caption, translation_languages) ==
    NewTranscript(vid, caption.baseUrl, caption.name, caption.languageCode,
                  get(caption.kind, "") = "asr",
                  IF caption.isTranslatable THEN translation_languages ELSE << >>)

\* A subscript of a key the dict does not have.
KeyError(vid) == Exc("KeyError", vid, 0)

\* The list comprehension of TranscriptList.build over
\* captions_json.get("translationLanguages", []).
translation_languages_of(captions_json) ==
    LET data == IF captions_json.has_translation_languages
                THEN captions_json.translationLanguages
                ELSE << >>
    IN  [ i \in DOMAIN data |->
            TranslationLanguage(data[i].languageName, data[i].languageCode) ]

\* The loop of TranscriptList.build over captionTracks: each track is stored
\* under its languageCode in the mapping its kind selects.
RECURSIVE build_loop(_, _, _, _, _)
build_loop(vid, tracks, translation_languages, manually_created, generated) ==
    IF tracks = << >>
    THEN [ kind |-> "TranscriptList", video_id |-> vid,
           manually_created |-> manually_created, generated |-> generated,
           translation_languages |-> translation_languages ]
    ELSE LET caption == Head(tracks)
         IN  IF Absent \in {caption.baseUrl, caption.name, caption.languageCode}
             THEN KeyError(vid)
             ELSE IF get(caption.kind, "") = "asr"
                  THEN build_loop(vid, Tail(tracks), translation_languages, manually_created,
                                  dict_set(generated, caption.languageCode,
                                           Transcript(vid, caption, translation_languages)))
                  ELSE build_loop(vid, Tail(tracks), translation_languages,
                                  dict_set(manually_created, caption.languageCode,
                                           Transcript(vid, caption, translation_languages)),
                                  generated)

\* The loop of TranscriptList.build with every track stored among the
\* manually created ones.
RECURSIVE build_loop_one_mapping(_, _, _, _)
build_loop_one_mapping(vid, tracks, translation_languages, manually_created) ==
    IF tracks = << >>
    THEN [ kind |-> "TranscriptList", video_id |-> vid,
           manually_created |-> manually_created, generated |-> EmptyDict,
           translation_languages |-> translation_languages ]
    ELSE LET caption == Head(tracks)
         IN  IF Absent \in {caption.baseUrl, caption.name, caption.languageCode}
             THEN KeyError(vid)
             ELSE build_loop_one_mapping(
                      vid, Tail(tracks), translation_languages,
                      dict_set(manually_created, caption.languageCode,
                               Transcript(vid, caption, translation_languages)))

\* TranscriptList.build without the routing by kind.
build_one_mapping(vid, captions_json) ==
    LET translation_languages == translation_languages_of(captions_json)
    IN  IF \E i \in DOMAIN translation_languages :
               Absent \in {translation_languages[i].language,
                           translation_languages[i].language_code}
        THEN KeyError(vid)
        ELSE build_loop_one_mapping(vid, captions_json.tracks, translation_languages,
                                    EmptyDict)

\* TranscriptList.build with the tracks walked from the last to the first:
\* of two tracks of one mapping and one code the earlier is the one kept.
build_first_track_kept(vid, captions_json) ==
    LET translation_languages == translation_languages_of(captions_json)
        tracks == captions_json.tracks
    IN  IF \E i \in DOMAIN translation_languages :
               Absent \in {translation_languages[i].language,
                           translation_languages[i].language_code}
        THEN KeyError(vid)
        ELSE build_loop(vid, [i \in 1..Len(tracks) |-> tracks[Len(tracks) + 1 - i]],
                        translation_languages, EmptyDict, EmptyDict)

\* TranscriptList.build
build(vid, captions_json) ==
    LET translation_languages == translation_languages_of(captions_json)
    IN  IF \E i \in DOMAIN translation_languages :
               Absent \in {translation_languages[i].language,
                           translation_languages[i].language_code}
        THEN KeyError(vid)
        ELSE build_loop(vid, captions_json.tracks, translation_languages,
                        EmptyDict, EmptyDict)

\* The transcripts of a TranscriptList (TranscriptList.__iter__).
transcripts_of(list) ==
    {list.manually_created[k] : k \in DOMAIN list.manually_created}
    \cup {list.generated[k] : k \in DOMAIN list.generated}

\* Transcript.is_translatable
is_translatable(self) == Len(self.translation_languages) > 0

\* translate handing its own translation languages to the new Transcript.
translate_keeping_languages(self, language_code) ==
    IF ~is_translatable(self)
    THEN Exc("NotTranslatable", self.video_id, 0)
    ELSE IF language_code \notin DOMAIN self.translation_languages_dict
         THEN Exc("TranslationLanguageNotAvailable", self.video_id, 0)
         ELSE NewTranscript(self.video_id, self.url \o "&tlang=" \o language_code,
                            self.translation_languages_dict[language_code],
                            language_code, TRUE, self.translation_languages)

\* translate with the language code looked up before is_translatable.
translate_code_first(self, language_code) ==
    IF language_code \notin DOMAIN self.translation_languages_dict
    THEN Exc("TranslationLanguageNotAvailable", self.video_id, 0)
    ELSE IF ~is_translatable(self)
         THEN Exc("NotTranslatable", self.video_id, 0)
         ELSE NewTranscript(self.video_id, self.url \o "&tlang=" \o language_code,
                            self.translation_languages_dict[language_code],
                            language_code, TRUE, << >>)

\* Transcript.translate
translate(self, language_code) ==
    IF ~is_translatable(self)
    THEN Exc("NotTranslatable", self.video_id, 0)
    ELSE IF language_code \notin DOMAIN self.translation_languages_dict
         THEN Exc("TranslationLanguageNotAvailable", self.video_id, 0)
         ELSE NewTranscript(self.video_id, self.url \o "&tlang=" \o language_code,
                            self.translation_languages_dict[language_code],
                            language_code, TRUE, << >>)

\* NoTranscriptFound(video_id, requested_language_codes, transcript_data)
NoTranscriptFound(vid, requested_language_codes, transcript_data) ==
    [ kind |-> "exception", type |-> "NoTranscriptFound", video_id |-> vid,
      requested_language_codes |-> requested_language_codes,
      transcript_data |-> transcript_data ]

\* The loop of TranscriptList._find_transcript over the codes yet to try:
\* the first mapping, in the order given, that has the code.
RECURSIVE find_transcript_loop(_, _, _, _)
find_transcript_loop(self, language_codes, remaining, transcript_dicts) ==
    IF remaining = << >>
    THEN NoTranscriptFound(self.video_id, language_codes, self)
    ELSE LET language_code == Head(remaining)
             having == {i \in DOMAIN transcript_dicts :
                          language_code \in DOMAIN transcript_dicts[i]}
         IN  IF having # {}
             THEN transcript_dicts[CHOOSE i \in having : \A j \in having : i <= j][language_code]
             ELSE find_transcript_loop(self, language_codes, Tail(remaining), transcript_dicts)

\* TranscriptList._find_transcript
find_transcript_in(self, language_codes, transcript_dicts) ==
    find_transcript_loop(self, language_codes, language_codes, transcript_dicts)

\* find_transcript with the generated transcripts looked at first.
find_transcript_generated_first(self, language_codes) ==
    find_transcript_in(self, language_codes, << self.generated, self.manually_created >>)

\* TranscriptList.find_transcript
find_transcript(self, language_codes) ==
    find_transcript_in(self, language_codes, << self.manually_created, self.generated >>)

\* find_generated_transcript falling back on the manually created ones.
find_generated_transcript_or_manual(self, language_codes) ==
    find_transcript_in(self, language_codes, << self.generated, self.manually_created >>)

\* TranscriptList.find_generated_transcript
find_generated_transcript(self, language_codes) ==
    find_transcript_in(self, language_codes, << self.generated >>)

\* TranscriptList.find_manually_created_transcript
find_manually_created_transcript(self, language_codes) ==
    find_transcript_in(self, language_codes, << self.manually_created >>)

\* -------------------------------------------------------------------- state
VARIABLES
    proxy_config,   \* TranscriptListFetcher._proxy_config
    video_id,       \* the argument of fetch
    pc,             \* where the call is
    try_number,     \* the try_number of the running _fetch_captions_json frame
    html,           \* the page _fetch_video_html returned to the running frame
    cookies,        \* the CONSENT cookie of self._http_client.cookies
    requests,       \* the GET requests sent so far, in order
    exception,      \* the RequestBlocked the running frame has caught
    caught,         \* the classes of the exceptions the except clause caught
    result,         \* what fetch returned or raised to its caller
    fetched,        \* what Transcript.fetch returned or raised
    input,          \* the arguments of a function applied on its own
    output,         \* what that function returned or raised
    semaphore,      \* the value of AsyncTranscriptHandler._semaphore
    tasks           \* the per-video coroutines of a fetch_bulk call

fetch_vars ==
    << proxy_config, video_id, pc, try_number, html, cookies, requests,
       exception, caught, result, fetched >>

\* The state of an AsyncTranscriptHandler and of its running fetch_bulk.
bulk_vars == << semaphore, tasks >>

vars == << fetch_vars, input, output, bulk_vars >>

NoException == Exc(None, << >>, 0)

NoResult == [kind |-> "none"]

\* What the response to a watch-page request shows of the consent form:
\* Absent without the marker, else the token (None when there is none).
consent_of(page) ==
    IF page.ok /\ page.consent THEN page.token ELSE Absent

\* A GET request as sent: the URL, the CONSENT cookie the session attached,
\* the attempt it belongs to, whether it is the consent re-fetch, and the
\* consent form of its response.
Request(url, refetch, consent) ==
    [ url |-> url, cookie |-> cookies, try |-> try_number, refetch |-> refetch,
      consent |-> consent ]

\* No AsyncTranscriptHandler is constructed.
NoBulk ==
    /\ semaphore = 0
    /\ tasks = << >>

InitFetch ==
    /\ pc = "fetch_video_html"
    /\ try_number = 0
    /\ html = NoPage
    /\ cookies = Absent
    /\ requests = << >>
    /\ exception = NoException
    /\ caught = {}
    /\ result = NoResult
    /\ fetched = NoResult

Init ==
    /\ proxy_config \in ProxyConfigs
    /\ video_id \in FetchVideoIds
    /\ InitFetch
    /\ NoBulk
    /\ input = NoResult
    /\ output = NoResult

\* An exception that no frame of _fetch_captions_json catches reaches the
\* caller of fetch as it is.
Propagate(e) ==
    /\ result' = e
    /\ pc' = "done"
    /\ html' = NoPage
    /\ UNCHANGED << proxy_config, video_id, try_number, exception, caught, fetched >>

\* The cookie stored without the "YES+" prefix.
consent_cookie_value_without_prefix(token) == token

\* The value _create_consent_cookie stores: "YES+" + match.group(1).
consent_cookie_value(token) == "YES+" \o token

\* _fetch_video_html up to the consent check: the first _fetch_html of the
\* attempt (GET, _raise_http_errors), then _create_consent_cookie when the
\* page shows the consent form.
FetchVideoHtml(page) ==
    /\ pc = "fetch_video_html"
    /\ requests' = Append(requests, Request("watch", FALSE, consent_of(page)))
    /\ IF ~page.ok
       THEN Propagate(Exc("YouTubeRequestFailed", video_id, try_number))
            /\ UNCHANGED cookies
       ELSE IF page.consent
            THEN IF page.token = None
                 THEN Propagate(Exc("FailedToCreateConsentCookie", video_id, try_number))
                      /\ UNCHANGED cookies
                 ELSE /\ cookies' = consent_cookie_value(page.token)
                      /\ pc' = "refetch_video_html"
                      /\ UNCHANGED << proxy_config, video_id, try_number, html,
                                      exception, caught, result, fetched >>
            ELSE /\ html' = page
                 /\ pc' = "extract_captions_json"
                 /\ UNCHANGED << proxy_config, video_id, try_number, cookies,
                                 exception, caught, result, fetched >>
    /\ UNCHANGED << input, output, bulk_vars >>

\* _fetch_video_html as a loop: while the page shows the consent form the
\* cookie is created and the page fetched again.
RefetchVideoHtml_while_consent(page) ==
    /\ pc = "refetch_video_html"
    /\ requests' = Append(requests, Request("watch", TRUE, consent_of(page)))
    /\ IF ~page.ok
       THEN Propagate(Exc("YouTubeRequestFailed", video_id, try_number))
            /\ UNCHANGED cookies
       ELSE IF page.consent
            THEN IF page.token = None
                 THEN Propagate(Exc("FailedToCreateConsentCookie", video_id, try_number))
                      /\ UNCHANGED cookies
                 ELSE /\ cookies' = consent_cookie_value(page.token)
                      /\ pc' = "refetch_video_html"
                      /\ UNCHANGED << proxy_config, video_id, try_number, html,
                                      exception, caught, result, fetched >>
            ELSE /\ html' = page
                 /\ pc' = "extract_captions_json"
                 /\ UNCHANGED << proxy_config, video_id, try_number, cookies,
                                 exception, caught, result, fetched >>
    /\ UNCHANGED << input, output, bulk_vars >>

\* _fetch_video_html after the cookie is set: the second _fetch_html and the
\* second consent check.
RefetchVideoHtml(page) ==
    /\ pc = "refetch_video_html"
    /\ requests' = Append(requests, Request("watch", TRUE, consent_of(page)))
    /\ IF ~page.ok
       THEN Propagate(Exc("YouTubeRequestFailed", video_id, try_number))
       ELSE IF page.consent
            THEN Propagate(Exc("FailedToCreateConsentCookie", video_id, try_number))
            ELSE /\ html' = page
                 /\ pc' = "extract_captions_json"
                 /\ UNCHANGED << proxy_config, video_id, try_number, exception,
                                 caught, result, fetched >>
    /\ UNCHANGED << cookies, input, output, bulk_vars >>

\* _fetch_captions_json from the return of _fetch_video_html: the extraction,
\* then either the except clause is entered, or another exception leaves the
\* frames, or captions_json returns through them to fetch, which builds the
\* TranscriptList or leaves with the exception build raises.
ExtractCaptionsJson ==
    /\ pc = "extract_captions_json"
    /\ LET extracted == extract_captions_json(html, video_id, try_number)
       IN  IF extracted.kind = "exception"
           THEN IF IsRequestBlocked(extracted)
                THEN /\ exception' = extracted
                     /\ caught' = caught \cup {extracted.type}
                     /\ pc' = "except_request_blocked"
                     /\ html' = NoPage
                     /\ UNCHANGED << proxy_config, video_id, try_number, result, fetched >>
                ELSE Propagate(extracted)
           ELSE /\ LET built == build(video_id, extracted)
                   IN  result' = IF built.kind = "exception"
                                 THEN [built EXCEPT !.raised_in = try_number]
                                 ELSE built
                /\ pc' = "done"
                /\ UNCHANGED << proxy_config, video_id, try_number, html, exception,
                                caught, fetched >>
    /\ UNCHANGED << cookies, requests, input, output, bulk_vars >>

\* retries of the except clause
retries_of(proxy) == IF proxy = NoProxy THEN 0 ELSE proxy.retries

\* if try_number < retries: one retry more.
should_retry_off_by_one(try, retries) == try < retries

\* The except clause without the recursive call.
should_retry_never(try, retries) == FALSE

\* if try_number + 1 < retries
should_retry(try, retries) == try + 1 < retries

\* The except clause with the recursive call made with the try_number it was
\* entered with.
ExceptRequestBlocked_same_try ==
    /\ pc = "except_request_blocked"
    /\ IF should_retry(try_number, retries_of(proxy_config))
       THEN /\ pc' = "fetch_video_html"
            /\ UNCHANGED result
       ELSE /\ result' = with_proxy_config(exception, proxy_config)
            /\ pc' = "done"
    /\ exception' = NoException
    /\ UNCHANGED << proxy_config, video_id, try_number, html, cookies, requests, caught,
                    fetched, input, output, bulk_vars >>

\* The except RequestBlocked clause of _fetch_captions_json: the recursive
\* call with try_number + 1, or the exception re-raised with the proxy
\* configuration.
ExceptRequestBlocked ==
    /\ pc = "except_request_blocked"
    /\ IF should_retry(try_number, retries_of(proxy_config))
       THEN /\ try_number' = try_number + 1
            /\ pc' = "fetch_video_html"
            /\ UNCHANGED result
       ELSE /\ result' = with_proxy_config(exception, proxy_config)
            /\ pc' = "done"
            /\ UNCHANGED try_number
    /\ exception' = NoException
    /\ UNCHANGED << proxy_config, video_id, html, cookies, requests, caught, fetched,
                    input, output, bulk_vars >>

FetchedTranscript(transcript) ==
    [ kind |-> "FetchedTranscript", video_id |-> transcript.video_id,
      language_code |-> transcript.language_code,
      is_generated |-> transcript.is_generated ]

\* Transcript.fetch on a transcript of the returned list: GET of its URL on
\* the same http client, then _raise_http_errors.
TranscriptFetch(transcript, ok) ==
    /\ pc = "done"
    /\ result.kind = "TranscriptList"
    /\ transcript \in transcripts_of(result)
    /\ requests' = Append(requests, Request("timedtext", FALSE, Absent))
    /\ fetched' = IF ok
                  THEN FetchedTranscript(transcript)
                  ELSE Exc("YouTubeRequestFailed", transcript.video_id, try_number)
    /\ pc' = "fetched"
    /\ UNCHANGED << proxy_config, video_id, try_number, html, cookies, exception,
                    caught, result, input, output, bulk_vars >>

\* The transcripts a caller can take from what fetch returned.
Transcripts == IF result.kind = "TranscriptList" THEN transcripts_of(result) ELSE {}

Next ==
    \/ \E page \in WatchPages : FetchVideoHtml(page)
    \/ \E page \in WatchPages : RefetchVideoHtml(page)
    \/ ExtractCaptionsJson
    \/ ExceptRequestBlocked
    \/ \E transcript \in Transcripts, ok \in CaptionResponses : TranscriptFetch(transcript, ok)

Spec == Init /\ [][Next]_vars

\* The steps of fetch itself: each waits for nothing but the response to the
\* request it has sent.
FetchStep ==
    \/ \E page \in WatchPages : FetchVideoHtml(page)
    \/ \E page \in WatchPages : RefetchVideoHtml(page)
    \/ ExtractCaptionsJson
    \/ ExceptRequestBlocked

\* Every HTTP request returns: a step fetch can take is taken.
SpecFetchFair == Spec /\ WF_vars(FetchStep)

\* ------------------------------------------------ the classifier on its own
PlayabilityInputs ==
    {NoPlayabilityStatus}
    \cup { PlayabilityStatusData(TRUE, s, r, FALSE, << >>) : s \in Statuses, r \in Reasons }
    \cup { PlayabilityStatusData(TRUE, s, r, TRUE, runs) :
             s \in Statuses, r \in Reasons, runs \in RunLists }

InitPlayability ==
    /\ proxy_config = NoProxy
    /\ video_id \in VideoIds
    /\ InitFetch
    /\ NoBulk
    /\ input \in PlayabilityInputs
    /\ output = NoResult

\* _assert_playability(playability_status_data, video_id)
AssertPlayability ==
    /\ output = NoResult
    /\ output' = assert_playability(input, video_id, 0)
    /\ UNCHANGED << fetch_vars, bulk_vars, input >>

NextPlayability == AssertPlayability

SpecPlayability == InitPlayability /\ [][NextPlayability]_vars

\* ---------------------------------------------------------- _JsVarParser
\* Page text is a sequence of characters.
VAR_PREFIX == << "v", "a", "r", " " >>

\* str.find(sub, start) with indices from 1: the least index >= start at
\* which sub occurs in s, 0 when there is none.
RECURSIVE find(_, _, _)
find(s, sub, start) ==
    IF start + Len(sub) - 1 > Len(s)
    THEN 0
    ELSE IF SubSeq(s, start, start + Len(sub) - 1) = sub
         THEN start
         ELSE find(s, sub, start + 1)

\* str.split(sep): the pieces between the occurrences of sep, left to right.
RECURSIVE split(_, _)
split(s, sep) ==
    LET i == find(s, sep, 1)
    IN  IF i = 0
        THEN << s >>
        ELSE << SubSeq(s, 1, i - 1) >> \o split(SubSeq(s, i + Len(sep), Len(s)), sep)

\* An iterator over characters, by the characters it has yet to yield.
CharIterator(chars) == [kind |-> "iterator", chars |-> chars]

\* str.join of the characters _find_var_substring collected.
VarString(chars) == [kind |-> "str", value |-> chars]

\* _JsVarParser._create_var_char_iterator: the iterator over the second
\* piece, advanced past its first "{"; next() raises StopIteration when the
\* piece has none.
create_var_char_iterator(var_name, raw_html, vid) ==
    LET splitted_html == split(raw_html, VAR_PREFIX \o var_name)
    IN  IF Len(splitted_html) <= 1
        THEN Exc("YouTubeDataUnparsable", vid, 0)
        ELSE LET piece == splitted_html[2]
                 brace == find(piece, << "{" >>, 1)
             IN  IF brace = 0
                 THEN Exc("StopIteration", vid, 0)
                 ELSE CharIterator(SubSeq(piece, brace + 1, Len(piece)))

\* The loop of _find_var_substring with the quotes not looked at.
RECURSIVE find_var_substring_loop_unquoted(_, _, _, _)
find_var_substring_loop_unquoted(char_iterator, vid, depth, chars) ==
    IF char_iterator = << >>
    THEN Exc("YouTubeDataUnparsable", vid, 0)
    ELSE LET char == Head(char_iterator)
             depth1 == IF char = "{" THEN depth + 1
                       ELSE IF char = "}" THEN depth - 1
                       ELSE depth
         IN  IF depth1 = 0
             THEN VarString(Append(chars, char))
             ELSE find_var_substring_loop_unquoted(Tail(char_iterator), vid, depth1,
                                                   Append(chars, char))

\* _find_var_substring counting every brace.
find_var_substring_unquoted(char_iterator, vid) ==
    find_var_substring_loop_unquoted(char_iterator, vid, 1, << "{" >>)

\* The loop of _find_var_substring with the characters returned when the
\* iterator is exhausted.
RECURSIVE find_var_substring_loop_to_end(_, _, _, _, _, _)
find_var_substring_loop_to_end(char_iterator, vid, escaped, in_quotes, depth, chars) ==
    IF char_iterator = << >>
    THEN VarString(chars)
    ELSE LET char == Head(char_iterator)
             plain == ~escaped /\ char \notin {"\\", "\""}
             depth1 == IF plain /\ ~in_quotes /\ char = "{" THEN depth + 1
                       ELSE IF plain /\ ~in_quotes /\ char = "}" THEN depth - 1
                       ELSE depth
         IN  IF depth1 = 0
             THEN VarString(Append(chars, char))
             ELSE find_var_substring_loop_to_end(
                      Tail(char_iterator), vid,
                      IF escaped THEN FALSE ELSE char = "\\",
                      IF ~escaped /\ char = "\"" THEN ~in_quotes ELSE in_quotes,
                      depth1, Append(chars, char))

\* _find_var_substring without the raise after the loop.
find_var_substring_to_end(char_iterator, vid) ==
    find_var_substring_loop_to_end(char_iterator, vid, FALSE, FALSE, 1, << "{" >>)

\* The for loop of _find_var_substring, one character a step.
RECURSIVE find_var_substring_loop(_, _, _, _, _, _)
find_var_substring_loop(char_iterator, vid, escaped, in_quotes, depth, chars) ==
    IF char_iterator = << >>
    THEN Exc("YouTubeDataUnparsable", vid, 0)
    ELSE LET char == Head(char_iterator)
             plain == ~escaped /\ char \notin {"\\", "\""}
             depth1 == IF plain /\ ~in_quotes /\ char = "{" THEN depth + 1
                       ELSE IF plain /\ ~in_quotes /\ char = "}" THEN depth - 1
                       ELSE depth
         IN  IF depth1 = 0
             THEN VarString(Append(chars, char))
             ELSE find_var_substring_loop(
                      Tail(char_iterator), vid,
                      IF escaped THEN FALSE ELSE char = "\\",
                      IF ~escaped /\ char = "\"" THEN ~in_quotes ELSE in_quotes,
                      depth1, Append(chars, char))

\* _JsVarParser._find_var_substring
find_var_substring(char_iterator, vid) ==
    find_var_substring_loop(char_iterator, vid, FALSE, FALSE, 1, << "{" >>)

\* The var_string of _JsVarParser.parse, the text it hands to json.loads, or
\* the exception raised before.
var_string(var_name, raw_html, vid) ==
    LET char_iterator == create_var_char_iterator(var_name, raw_html, vid)
    IN  IF char_iterator.kind = "exception"
        THEN char_iterator
        ELSE find_var_substring(char_iterator.chars, vid)

\* ------------------------------------------------------ _TranscriptParser
\* Caption text is a sequence of characters without "#".
FORMATTING_TAGS ==
    { << "s", "t", "r", "o", "n", "g" >>, << "e", "m" >>, << "b" >>, << "i" >>,
      << "m", "a", "r", "k" >>, << "s", "m", "a", "l", "l" >>, << "d", "e", "l" >>,
      << "i", "n", "s" >>, << "s", "u", "b" >>, << "s", "u", "p" >> }

LowerCase ==
    { "a", "b", "c", "d", "e", "f", "g", "h", "i", "j", "k", "l", "m", "n", "o",
      "p", "q", "r", "s", "t", "u", "v", "w", "x", "y", "z" }

\* \w of the regular expressions: letters, digits and the underscore.
WordChars ==
    LowerCase \cup { "B", "I" } \cup { "0", "1", "2", "3", "4", "5", "6", "7", "8", "9", "_" }

\* The character re.IGNORECASE compares in place of c.
lower(c) ==
    CASE c = "B" -> "b"
      [] c = "I" -> "i"
      [] OTHER -> c

\* html.entities.html5, the entries whose names the texts can hold.
html5 ==
    (<< "a", "m", "p", ";" >> :> "&") @@ (<< "a", "m", "p" >> :> "&")
    @@ (<< "l", "t", ";" >> :> "<") @@ (<< "l", "t" >> :> "<")
    @@ (<< "g", "t", ";" >> :> ">") @@ (<< "g", "t" >> :> ">")
    @@ (<< "q", "u", "o", "t", ";" >> :> "\"") @@ (<< "q", "u", "o", "t" >> :> "\"")

\* The longest proper prefix of a character reference, of two characters or
\* more, that is an entity name: its length, 0 when there is none.
RECURSIVE charref_prefix(_, _)
charref_prefix(ref, x) ==
    IF x < 2
    THEN 0
    ELSE IF SubSeq(ref, 1, x) \in DOMAIN html5
         THEN x
         ELSE charref_prefix(ref, x - 1)

\* html._replace_charref for a named reference (the text after "&").
replace_charref(ref) ==
    IF ref \in DOMAIN html5
    THEN << html5[ref] >>
    ELSE LET x == charref_prefix(ref, Len(ref) - 1)
         IN  IF x # 0
             THEN << html5[SubSeq(ref, 1, x)] >> \o SubSeq(ref, x + 1, Len(ref))
             ELSE << "&" >> \o ref

\* The characters [^\t\n\f <&#;] of a reference name from position i on, at
\* most 32 of them: how many there are.
RECURSIVE charref_name_len(_, _, _)
charref_name_len(s, i, n) ==
    IF i > Len(s) \/ n = 32 \/ s[i] \in { "\t", "\n", "\f", " ", "<", "&", "#", ";" }
    THEN n
    ELSE charref_name_len(s, i + 1, n + 1)

\* html.unescape from position i on: every &name with its optional ";" is
\* replaced, left to right, and the replacement is not looked at again.
RECURSIVE unescape_from(_, _)
unescape_from(s, i) ==
    IF i > Len(s)
    THEN << >>
    ELSE IF s[i] # "&"
         THEN << s[i] >> \o unescape_from(s, i + 1)
         ELSE LET n == charref_name_len(s, i + 1, 0)
                  semicolon == i + n + 1 <= Len(s) /\ s[i + n + 1] = ";"
                  last == IF semicolon THEN i + n + 1 ELSE i + n
              IN  IF n = 0
                  THEN << "&" >> \o unescape_from(s, i + 1)
                  ELSE replace_charref(SubSeq(s, i + 1, last)) \o unescape_from(s, last + 1)

\* html.unescape
unescape(s) == unescape_from(s, 1)

\* \b at position i of s: between s[i - 1] and s[i], one a word character
\* and the other not.
word_boundary(s, i) ==
    LET before == i - 1 >= 1 /\ i - 1 <= Len(s) /\ s[i - 1] \in WordChars
        after == i >= 1 /\ i <= Len(s) /\ s[i] \in WordChars
    IN  before # after

\* (strong|em|...)\b matches at position k of s, whatever the case.
formatting_tag_at(s, k) ==
    \E tag \in FORMATTING_TAGS :
        /\ k + Len(tag) - 1 <= Len(s)
        /\ \A n \in 1..Len(tag) : lower(s[k + n - 1]) = tag[n]
        /\ word_boundary(s, k + Len(tag))

\* .*?\b> from position q on: the position of the first ">" that follows a
\* word character with no line break before it, 0 when there is none.
RECURSIVE lazy_tag_end(_, _)
lazy_tag_end(s, j) ==
    IF j > Len(s)
    THEN 0
    ELSE IF s[j] = ">" /\ word_boundary(s, j)
         THEN j
         ELSE IF s[j] = "\n"
              THEN 0
              ELSE lazy_tag_end(s, j + 1)

\* The rest of the formatting-preserving expression after <\/? has matched
\* up to position q: the negative lookahead, then .*?\b>.
formatting_rest_end(s, q) ==
    IF formatting_tag_at(s, q) \/ (q <= Len(s) /\ s[q] = "/" /\ formatting_tag_at(s, q + 1))
    THEN 0
    ELSE lazy_tag_end(s, q)

\* Where a match of self._html_regex that starts at position i ends, 0 when
\* none starts there.
\*   preserve_formatting: <\/?(?!\/?(strong|em|...)\b).*?\b>, the optional
\*                        "/" taken first and given back when the rest fails
\*   otherwise:           <[^>]*>
html_regex_match_end(preserve_formatting, s, i) ==
    IF s[i] # "<"
    THEN 0
    ELSE IF ~preserve_formatting
         THEN find(s, << ">" >>, i + 1)
         ELSE LET with_slash == IF i + 1 <= Len(s) /\ s[i + 1] = "/"
                                THEN formatting_rest_end(s, i + 2)
                                ELSE 0
              IN  IF with_slash # 0
                  THEN with_slash
                  ELSE formatting_rest_end(s, i + 1)

\* re.sub(self._html_regex, "", s) from position i on: the leftmost match
\* is removed and the search goes on after it.
RECURSIVE html_regex_sub_from(_, _, _)
html_regex_sub_from(preserve_formatting, s, i) ==
    IF i > Len(s)
    THEN << >>
    ELSE LET end == html_regex_match_end(preserve_formatting, s, i)
         IN  IF end # 0
             THEN html_regex_sub_from(preserve_formatting, s, end + 1)
             ELSE << s[i] >> \o html_regex_sub_from(preserve_formatting, s, i + 1)

\* re.sub(self._html_regex, "", s)
html_regex_sub(preserve_formatting, s) == html_regex_sub_from(preserve_formatting, s, 1)

\* The text of a snippet: re.sub(self._html_regex, "", unescape(text))
snippet_text(preserve_formatting, text) ==
    html_regex_sub(preserve_formatting, unescape(text))

\* float() of the attribute values the captions carry, in hundredths of a
\* second.
FloatValues ==
    ("0" :> 0) @@ ("0.0" :> 0) @@ ("1.54" :> 154) @@ ("4.16" :> 416) @@ ("5.7" :> 570)

\* A child element of the root ElementTree.fromstring returns: whether its
\* text is not None, the text, and the attributes start and dur (Absent when
\* the element has no such attribute).
XmlElement(has_text, text, start, dur) ==
    [has_text |-> has_text, text |-> text, start |-> start, dur |-> dur]

\* raw_data: whether it parses as XML, and the child elements of its root.
RawData(well_formed, children) == [well_formed |-> well_formed, children |-> children]

FetchedTranscriptSnippet(text, start, duration) ==
    [text |-> text, start |-> start, duration |-> duration]

Snippets(value) == [kind |-> "snippets", value |-> value]

\* The list comprehension of parse with the text of an element not looked
\* at: elements without text give a snippet with empty text.
RECURSIVE parse_every_element_loop(_, _, _)
parse_every_element_loop(preserve_formatting, elements, snippets) ==
    IF elements = << >>
    THEN Snippets(snippets)
    ELSE LET xml_element == Head(elements)
             dur == get(xml_element.dur, "0.0")
         IN  IF xml_element.start = Absent
             THEN Exc("KeyError", << >>, 0)
             ELSE IF xml_element.start \notin DOMAIN FloatValues
                     \/ dur \notin DOMAIN FloatValues
                  THEN Exc("ValueError", << >>, 0)
                  ELSE parse_every_element_loop(
                           preserve_formatting, Tail(elements),
                           Append(snippets,
                                  FetchedTranscriptSnippet(
                                      html_regex_sub(preserve_formatting,
                                                     unescape(xml_element.text)),
                                      FloatValues[xml_element.start], FloatValues[dur])))

parse_every_element(preserve_formatting, raw_data) ==
    IF ~raw_data.well_formed
    THEN Exc("ParseError", << >>, 0)
    ELSE parse_every_element_loop(preserve_formatting, raw_data.children, << >>)

\* The list comprehension of _TranscriptParser.parse over the child
\* elements: a snippet for each element whose text is not None.
RECURSIVE parse_loop(_, _, _)
parse_loop(preserve_formatting, elements, snippets) ==
    IF elements = << >>
    THEN Snippets(snippets)
    ELSE LET xml_element == Head(elements)
             dur == get(xml_element.dur, "0.0")
         IN  IF ~xml_element.has_text
             THEN parse_loop(preserve_formatting, Tail(elements), snippets)
             ELSE IF xml_element.start = Absent
                  THEN Exc("KeyError", << >>, 0)
                  ELSE IF xml_element.start \notin DOMAIN FloatValues
                          \/ dur \notin DOMAIN FloatValues
                       THEN Exc("ValueError", << >>, 0)
                       ELSE parse_loop(
                                preserve_formatting, Tail(elements),
                                Append(snippets,
                                       FetchedTranscriptSnippet(
                                           html_regex_sub(preserve_formatting,
                                                          unescape(xml_element.text)),
                                           FloatValues[xml_element.start],
                                           FloatValues[dur])))

\* _TranscriptParser(preserve_formatting).parse(raw_data)
parse(preserve_formatting, raw_data) ==
    IF ~raw_data.well_formed
    THEN Exc("ParseError", << >>, 0)
    ELSE parse_loop(preserve_formatting, raw_data.children, << >>)

\* A response to GET of a caption track's URL: whether raise_for_status()
\* passes, and its text.
CaptionResponse(ok, raw_data) == [ok |-> ok, raw_data |-> raw_data]

\* Transcript.fetch(preserve_formatting) given the response to its GET: the
\* FetchedTranscript with the parsed snippets, or the exception that
\* _raise_http_errors or parse raises.
transcript_fetch(self, preserve_formatting, response) ==
    IF ~response.ok
    THEN Exc("YouTubeRequestFailed", self.video_id, 0)
    ELSE LET snippets == parse(preserve_formatting, response.raw_data)
         IN  IF snippets.kind = "exception"
             THEN snippets
             ELSE [ kind |-> "FetchedTranscript", snippets |-> snippets.value,
                    video_id |-> self.video_id, language |-> self.language,
                    language_code |-> self.language_code,
                    is_generated |-> self.is_generated ]

\* ------------------------------------------------ the extractor on its own
\* The nesting of the JSON objects and the length of the free page text the
\* extractor is applied to.
MaxNesting == 2
MaxBody == 4

\* The variable of the pages: var cfg.
VarName == << "c", "f", "g" >>

Marker == VAR_PREFIX \o VarName

\* JSON text: a string literal of the given body, a member, an object.
Quote(body) == << "\"" >> \o body \o << "\"" >>

StringBodies ==
    { << >>, << "a" >>, << "}" >>, << "{" >>, << "\\", "\"" >>, << "\\", "\\" >>,
      << "{", "\\", "\"" >> }

JsonStrings == { Quote(body) : body \in StringBodies }

Member(key, value) == Quote(key) \o << ":" >> \o value

RECURSIVE JsonObjects(_)
JsonObjects(nesting) ==
    IF nesting = 0
    THEN { << "{", "}" >> }
    ELSE LET inner == JsonObjects(nesting - 1)
         IN  { << "{", "}" >> }
             \cup { << "{" >> \o Member(<< "a" >>, v) \o << "}" >> :
                      v \in JsonStrings \cup { << "1" >> } \cup inner }
             \cup { << "{" >> \o Member(<< "a" >>, str) \o << "," >>
                             \o Member(<< "b" >>, o) \o << "}" >> :
                      str \in { Quote(<< "}" >>), Quote(<< "{", "\\", "\"" >>) },
                      o \in inner }

\* {"a": "}", "b": {"c": 1}}
ExampleObject ==
    << "{", "\"", "a", "\"", ":", " ", "\"", "}", "\"", ",", " ",
       "\"", "b", "\"", ":", " ", "{", "\"", "c", "\"", ":", " ", "1", "}", "}" >>

Objects == JsonObjects(MaxNesting) \cup {ExampleObject}

\* A page in parts: the text before the variable, 'var cfg' (or nothing),
\* the text up to the object, the object (or nothing), the text after.
PageParts(prefix, marker, gap, object, suffix) ==
    [ prefix |-> prefix, marker |-> marker, gap |-> gap, object |-> object,
      suffix |-> suffix ]

raw_html_of(page) ==
    page.prefix \o page.marker \o page.gap \o page.object \o page.suffix

Prefixes == { << >>, << "{", "x" >> }

Gaps == { << >>, << " ", "=", " " >>, << ";" >> \o Marker \o << "=" >> }

Suffixes == { << >>, << ";" >>, << "}" >>, << "{" >>, << "\"", "}" >> } \cup {Marker}

BodyChars == { "{", "}", "\"", "\\", "a" }

RECURSIVE Texts(_, _)
Texts(chars, n) ==
    IF n = 0
    THEN { << >> }
    ELSE LET shorter == Texts(chars, n - 1)
         IN  shorter \cup { Append(t, c) : t \in shorter, c \in chars }

JsVarPages ==
    { PageParts(p, Marker, g, o, x) :
        p \in Prefixes, g \in Gaps, o \in Objects, x \in Suffixes }
    \cup { PageParts(<< >>, m, << >>, << >>, body) :
             m \in {Marker, << >>}, body \in Texts(BodyChars, MaxBody) }

InitJsVar ==
    /\ proxy_config = NoProxy
    /\ video_id \in FetchVideoIds
    /\ InitFetch
    /\ NoBulk
    /\ input \in JsVarPages
    /\ output = NoResult

\* _JsVarParser(var_name).parse(raw_html, video_id) up to json.loads
JsVarParse ==
    /\ output = NoResult
    /\ output' = var_string(VarName, raw_html_of(input), video_id)
    /\ UNCHANGED << fetch_vars, bulk_vars, input >>

NextJsVar == JsVarParse

SpecJsVar == InitJsVar /\ [][NextJsVar]_vars

\* ---------------------------------------------- TranscriptList on its own
\* The number of caption tracks of a video and of requested language codes.
MaxTracks == 3
MaxCodes == 2

LanguageCodes == {"de", "en", "cs"}

FindTracks == { Track(code, kind) : code \in LanguageCodes, kind \in {Absent, "asr"} }

\* The lists build gives for up to MaxTracks complete tracks.
TranscriptLists(vid) ==
    { build(vid, CaptionsJson(Captions("CaptionTracks", tracks))) :
        tracks \in Texts(FindTracks, MaxTracks) }

FindMethods ==
    {"find_transcript", "find_generated_transcript", "find_manually_created_transcript"}

InitFind ==
    /\ proxy_config = NoProxy
    /\ video_id = << "a", "b", "c" >>
    /\ InitFetch
    /\ NoBulk
    /\ input \in [ self : TranscriptLists(video_id),
                   method : FindMethods,
                   language_codes : Texts(LanguageCodes, MaxCodes) ]
    /\ output = NoResult

\* transcript_list.find_transcript(language_codes)
FindTranscript ==
    /\ output = NoResult
    /\ input.method = "find_transcript"
    /\ output' = find_transcript(input.self, input.language_codes)
    /\ UNCHANGED << fetch_vars, bulk_vars, input >>

\* transcript_list.find_generated_transcript(language_codes)
FindGeneratedTranscript ==
    /\ output = NoResult
    /\ input.method = "find_generated_transcript"
    /\ output' = find_generated_transcript(input.self, input.language_codes)
    /\ UNCHANGED << fetch_vars, bulk_vars, input >>

\* transcript_list.find_manually_created_transcript(language_codes)
FindManuallyCreatedTranscript ==
    /\ output = NoResult
    /\ input.method = "find_manually_created_transcript"
    /\ output' = find_manually_created_transcript(input.self, input.language_codes)
    /\ UNCHANGED << fetch_vars, bulk_vars, input >>

NextFind ==
    \/ FindTranscript
    \/ FindGeneratedTranscript
    \/ FindManuallyCreatedTranscript

SpecFind == InitFind /\ [][NextFind]_vars

\* ------------------------------------------------------- build on its own
\* Caption tracks as the platform may send them: both kinds of two
\* languages, a second manually created English track, and tracks that lack
\* a key.
BuildTracks ==
    { Track(code, kind) : code \in {"en", "de"}, kind \in {Absent, "asr"} }
    \cup { CaptionTrack("/api/timedtext?lang=en&name=uk", "English (United Kingdom)",
                        "en", Absent, FALSE),
           CaptionTrack(Absent, "English", "en", Absent, TRUE),
           CaptionTrack("/api/timedtext?lang=en", Absent, "en", "asr", TRUE),
           CaptionTrack("/api/timedtext?lang=en", "English", Absent, Absent, TRUE) }

\* translationLanguages: missing, empty, complete entries, an entry without
\* languageName.
TranslationLanguagesCases ==
    { << FALSE, << >> >>,
      << TRUE, << >> >>,
      << TRUE, << TranslationLanguageData("German", "de") >> >>,
      << TRUE, << TranslationLanguageData("German", "de"),
                  TranslationLanguageData("Czech", "cs") >> >>,
      << TRUE, << TranslationLanguageData("German", "de"),
                  TranslationLanguageData("Deutsch", "de") >> >>,
      << TRUE, << TranslationLanguageData(Absent, "de") >> >> }

BuildInputs ==
    { CaptionsJson(CaptionsData("CaptionTracks", tracks, tl[1], tl[2])) :
        tracks \in Texts(BuildTracks, MaxTracks), tl \in TranslationLanguagesCases }

InitBuild ==
    /\ proxy_config = NoProxy
    /\ video_id = << "a", "b", "c" >>
    /\ InitFetch
    /\ NoBulk
    /\ input \in BuildInputs
    /\ output = NoResult

\* TranscriptList.build(http_client, video_id, captions_json)
Build ==
    /\ output = NoResult
    /\ output' = build(video_id, input)
    /\ UNCHANGED << fetch_vars, bulk_vars, input >>

NextBuild == Build

SpecBuild == InitBuild /\ [][NextBuild]_vars

\* --------------------------------------------------- translate on its own
\* The transcripts of the lists build gives.
BuiltTranscripts(vid) ==
    UNION { transcripts_of(list) :
              list \in { l \in { build(vid, captions_json) : captions_json \in BuildInputs } :
                           l.kind = "TranscriptList" } }

\* A call of translate: the Transcript it is called on, whether that came
\* from translate itself, and the language code passed.
TranslateCall(transcript, translated, language_code) ==
    [ transcript |-> transcript, translated |-> translated,
      language_code |-> language_code ]

InitTranslate ==
    /\ proxy_config = NoProxy
    /\ video_id = << "a", "b", "c" >>
    /\ InitFetch
    /\ NoBulk
    /\ input \in { TranslateCall(t, FALSE, code) :
                     t \in BuiltTranscripts(video_id), code \in LanguageCodes }
    /\ output = NoResult

\* transcript.translate(language_code)
Translate ==
    /\ output = NoResult
    /\ output' = translate(input.transcript, input.language_code)
    /\ UNCHANGED << fetch_vars, bulk_vars, input >>

\* translate called on the Transcript the last call returned.
TranslateTranslation(language_code) ==
    /\ output.kind = "Transcript"
    /\ input' = TranslateCall(output, TRUE, language_code)
    /\ output' = NoResult
    /\ UNCHANGED << fetch_vars, bulk_vars >>

\* transcript.translation_languages = [] by the caller, as
\* test_translate_transcript__not_translatable does.
ClearTranslationLanguages ==
    /\ output = NoResult
    /\ input.transcript.translation_languages # << >>
    /\ input' = [input EXCEPT !.transcript.translation_languages = << >>]
    /\ UNCHANGED << fetch_vars, bulk_vars, output >>

NextTranslate ==
    \/ Translate
    \/ \E language_code \in LanguageCodes : TranslateTranslation(language_code)
    \/ ClearTranslationLanguages

SpecTranslate == InitTranslate /\ [][NextTranslate]_vars

\* ------------------------------- translate after assignments to the field
\* The lists a caller assigns to transcript.translation_languages.
AssignedTranslationLanguages ==
    { << >>,
      << TranslationLanguage("German", "de") >>,
      << TranslationLanguage("Czech", "cs") >>,
      << TranslationLanguage("German", "de"), TranslationLanguage("Czech", "cs") >> }

InitTranslateAssigned ==
    /\ proxy_config = NoProxy
    /\ video_id = << "a", "b", "c" >>
    /\ InitFetch
    /\ NoBulk
    /\ input \in { TranslateCall(t, FALSE, code) :
                     t \in BuiltTranscripts(video_id), code \in LanguageCodes }
    /\ output = NoResult

\* transcript.translation_languages = value by the caller: the attribute is
\* rebound, _translation_languages_dict stays as __init__ built it.
AssignTranslationLanguages(value) ==
    /\ output = NoResult
    /\ input.transcript.translation_languages # value
    /\ input' = [input EXCEPT !.transcript.translation_languages = value]
    /\ UNCHANGED << fetch_vars, bulk_vars, output >>

NextTranslateAssigned ==
    \/ Translate
    \/ \E value \in AssignedTranslationLanguages : AssignTranslationLanguages(value)

SpecTranslateAssigned == InitTranslateAssigned /\ [][NextTranslateAssigned]_vars

\* ------------------------------------------------------ parse on its own
\* The number of child elements of a caption document.
MaxElements == 3

\* <text> elements: with plain text, with tags, with an entity, with blank
\* text, without text, without dur, without start.
CaptionElements ==
    { XmlElement(TRUE, << "a" >>, "0.0", "1.54"),
      XmlElement(TRUE, << "b", "<", "i", ">", "c", "<", "/", "i", ">" >>, "1.54", "4.16"),
      XmlElement(TRUE, << "&", "l", "t", ";", "d" >>, "4.16", Absent),
      XmlElement(TRUE, << " " >>, "5.7", "0"),
      XmlElement(FALSE, << >>, "1.54", "4.16"),
      XmlElement(FALSE, << >>, "5.7", Absent),
      XmlElement(TRUE, << "e" >>, Absent, "1.54") }

ParseInputs ==
    { [ preserve_formatting |-> preserve_formatting, raw_data |-> RawData(TRUE, children) ] :
        preserve_formatting \in BOOLEAN, children \in Texts(CaptionElements, MaxElements) }
    \cup { [ preserve_formatting |-> FALSE, raw_data |-> RawData(FALSE, << >>) ] }

InitParse ==
    /\ proxy_config = NoProxy
    /\ video_id = << "a", "b", "c" >>
    /\ InitFetch
    /\ NoBulk
    /\ input \in ParseInputs
    /\ output = NoResult

\* _TranscriptParser(preserve_formatting=preserve_formatting).parse(raw_data)
Parse ==
    /\ output = NoResult
    /\ output' = parse(input.preserve_formatting, input.raw_data)
    /\ UNCHANGED << fetch_vars, bulk_vars, input >>

NextParse == Parse

SpecParse == InitParse /\ [][NextParse]_vars

\* ----------------------------------------------- snippet text on its own
\* The number of fragments of the text of a caption element.
MaxFragments == 3

\* A piece of element text: its characters, the characters it stands for
\* once character references are decoded, whether these are a tag, and the
\* tag's name.
TextFragment(chars, decoded, is_tag, name) ==
    [chars |-> chars, decoded |-> decoded, is_tag |-> is_tag, name |-> name]

\* Plain text, a character reference, formatting tags, encoded tags, and
\* other tags: plain, self-closing and with an attribute.
TextFragments ==
    { TextFragment(<< "a" >>,
                   << "a" >>, FALSE, <<  >>),
      TextFragment(<< " " >>,
                   << " " >>, FALSE, <<  >>),
      TextFragment(<< "&", "a", "m", "p", ";" >>,
                   << "&" >>, FALSE, <<  >>),
      TextFragment(<< "<", "b", ">" >>,
                   << "<", "b", ">" >>, TRUE, << "b" >>),
      TextFragment(<< "<", "/", "b", ">" >>,
                   << "<", "/", "b", ">" >>, TRUE, << "b" >>),
      TextFragment(<< "<", "i", ">" >>,
                   << "<", "i", ">" >>, TRUE, << "i" >>),
      TextFragment(<< "&", "l", "t", ";", "i", "&", "g", "t", ";" >>,
                   << "<", "i", ">" >>, TRUE, << "i" >>),
      TextFragment(<< "<", "b", "r", ">" >>,
                   << "<", "b", "r", ">" >>, TRUE, << "b", "r" >>),
      TextFragment(<< "<", "b", "r", "/", ">" >>,
                   << "<", "b", "r", "/", ">" >>, TRUE, << "b", "r" >>),
      TextFragment(<< "<", "a", " ", "h", "r", "e", "f", "=", "\"", "x", "\"", ">" >>,
                   << "<", "a", " ", "h", "r", "e", "f", "=", "\"", "x", "\"", ">" >>, TRUE, << "a" >>),
      TextFragment(<< "<", "/", "a", ">" >>,
                   << "<", "/", "a", ">" >>, TRUE, << "a" >>),
      TextFragment(<< "&", "l", "t", ";", "p", "&", "g", "t", ";" >>,
                   << "<", "p", ">" >>, TRUE, << "p" >>) }

RECURSIVE Flatten(_)
Flatten(seqs) == IF seqs = << >> THEN << >> ELSE Head(seqs) \o Flatten(Tail(seqs))

SnippetTextInputs ==
    [ preserve_formatting : BOOLEAN,
      fragments : Texts(TextFragments, MaxFragments) ]

InitSnippetText ==
    /\ proxy_config = NoProxy
    /\ video_id = << "a", "b", "c" >>
    /\ InitFetch
    /\ NoBulk
    /\ input \in SnippetTextInputs
    /\ output = NoResult

\* text=re.sub(self._html_regex, "", unescape(xml_element.text)) of parse
SnippetText ==
    /\ output = NoResult
    /\ output' = [ kind |-> "text",
                   value |-> snippet_text(
                                 input.preserve_formatting,
                                 Flatten([i \in DOMAIN input.fragments |->
                                            input.fragments[i].chars])) ]
    /\ UNCHANGED << fetch_vars, bulk_vars, input >>

NextSnippetText == SnippetText

SpecSnippetText == InitSnippetText /\ [][NextSnippetText]_vars

\* -------------------------------------------- Transcript.fetch on its own
\* Caption payloads: text that is not XML, and documents of up to one element.
CaptionPayloads ==
    { RawData(FALSE, << >>) }
    \cup { RawData(TRUE, children) : children \in Texts(CaptionElements, 1) }

TranscriptFetchInputs(vid) ==
    [ self : BuiltTranscripts(vid),
      preserve_formatting : BOOLEAN,
      response : { CaptionResponse(ok, raw_data) :
                     ok \in BOOLEAN, raw_data \in CaptionPayloads } ]

InitTranscriptFetch ==
    /\ proxy_config = NoProxy
    /\ video_id = << "a", "b", "c" >>
    /\ InitFetch
    /\ NoBulk
    /\ input \in TranscriptFetchInputs(video_id)
    /\ output = NoResult

\* transcript.fetch(preserve_formatting)
FetchTranscript ==
    /\ output = NoResult
    /\ output' = transcript_fetch(input.self, input.preserve_formatting, input.response)
    /\ UNCHANGED << fetch_vars, bulk_vars, input >>

NextTranscriptFetch == FetchTranscript

SpecTranscriptFetch == InitTranscriptFetch /\ [][NextTranscriptFetch]_vars

\* ------------------------------------------------------ the async pipeline
\* _transcripts_async.py: TranscriptListFetcherAsync, TranscriptAsync.fetch
\* and AsyncTranscriptHandler.  A run is one fetch_bulk call: one coroutine
\* per entry of video_ids, each suspended at its awaits (the semaphore, the
\* watch-page GET, the innertube POST, the caption GET), resumed in any
\* order.

\* The entries of video_ids and the permits of the semaphore.
MaxVideos == 2
MaxConcurrent == 2

\* An httpx response: its status code and what the pipeline reads of its body.
Response(status_code, body) ==
    [kind |-> "response", status_code |-> status_code, body |-> body]

\* _raise_http_errors of the async module: IpBlocked for a 429,
\* YouTubeRequestFailed for the HTTPError of raise_for_status(), else the
\* response.
raise_http_errors(response, vid) ==
    IF response.status_code = 429
    THEN Exc("IpBlocked", vid, 0)
    ELSE IF response.status_code >= 400
         THEN Exc("YouTubeRequestFailed", vid, 0)
         ELSE response

\* The text of a watch page, by what the async fetcher reads of it: the
\* consent form and its token (None when 'name="v" value="(.*?)"' has no
\* match), a match of '"INNERTUBE_API_KEY":\s*"([a-zA-Z0-9_-]+)"', and
\* 'class="g-recaptcha"'.
WatchHtml(consent, token, api_key, captcha) ==
    [consent |-> consent, token |-> token, api_key |-> api_key, captcha |-> captcha]

\* The JSON of an innertube response: "playabilityStatus" and "captions".
InnertubeData(playability, captions) == [playability |-> playability, captions |-> captions]

\* TranscriptListFetcherAsync._extract_innertube_api_key: Pass when the key
\* is found, else the exception.
extract_innertube_api_key(watch_html, vid) ==
    IF watch_html.api_key
    THEN Pass
    ELSE IF watch_html.captcha
         THEN Exc("IpBlocked", vid, 0)
         ELSE Exc("YouTubeDataUnparsable", vid, 0)

\* TranscriptListFetcherAsync._extract_captions_json
extract_captions_json_async(innertube_data, vid) ==
    LET playable == assert_playability(innertube_data.playability, vid, 0)
    IN  IF playable.kind # "pass"
        THEN playable
        ELSE IF captions_json_missing(innertube_data.captions)
             THEN Exc("TranscriptsDisabled", vid, 0)
             ELSE CaptionsJson(innertube_data.captions)

\* The track URL that carries "&exp=xpe".
PoTokenUrl == "/api/timedtext?lang=en&exp=xpe"

\* "&exp=xpe" in self._url, over the URLs of the model.
requires_po_token(url) == url = PoTokenUrl

\* The exceptions of the async pipeline are built with attempt 0: the attempt
\* that matters is the try_number of the coroutine.

\* A coroutine _safe_fetch(video_id): where it is suspended, the try_number
\* of its running _fetch_captions_json frame, the transcript find_transcript
\* returned, and what _safe_fetch returned.
Task(pc_, try, transcript, task_result) ==
    [pc |-> pc_, try_number |-> try, transcript |-> transcript, result |-> task_result]

NewTask == Task("semaphore", 0, NoResult, NoResult)

\* _safe_fetch returns what fetch_single returned, or the Exception it raised;
\* the frames of the coroutine and their locals are gone.
safe_fetch(task, value) == Task("done", 0, NoResult, value)

\* An exception raised inside the try of the async _fetch_captions_json: a
\* RequestBlocked starts the next attempt or is raised with the proxy
\* configuration, any other exception leaves fetch_single.
raised_in_fetch_captions_json(task, e, proxy) ==
    IF IsRequestBlocked(e)
    THEN IF should_retry(task.try_number, retries_of(proxy))
         THEN [task EXCEPT !.pc = "fetch_html", !.try_number = @ + 1]
         ELSE safe_fetch(task, with_proxy_config(e, proxy))
    ELSE safe_fetch(task, e)

\* _fetch_captions_json from a watch page without the consent form to the
\* POST of _fetch_innertube_data.
after_fetch_video_html(task, watch_html, vid, proxy) ==
    LET api_key == extract_innertube_api_key(watch_html, vid)
    IN  IF api_key.kind = "exception"
        THEN raised_in_fetch_captions_json(task, api_key, proxy)
        ELSE [task EXCEPT !.pc = "fetch_innertube_data"]

\* fetch_single from the return of self._fetcher.fetch to the GET of
\* TranscriptAsync.fetch: build, find_transcript, the "&exp=xpe" test.  The
\* frames of _fetch_captions_json have returned, and try_number with them.
\* TranscriptListAsync.build routes the tracks as TranscriptList.build does;
\* the "&fmt=srv3" it removes from baseUrl is in no URL of the model.
after_fetch_captions_json(task, captions_json, vid, languages) ==
    LET transcript_list == build(vid, captions_json)
    IN  IF transcript_list.kind = "exception"
        THEN safe_fetch(task, transcript_list)
        ELSE LET transcript == find_transcript(transcript_list, languages)
             IN  IF transcript.kind = "exception"
                 THEN safe_fetch(task, transcript)
                 ELSE IF requires_po_token(transcript.url)
                      THEN safe_fetch(task, Exc("PoTokenRequired", vid, 0))
                      ELSE Task("fetch", 0, transcript, NoResult)

\* TranscriptAsync.fetch from the response to its GET: _raise_http_errors,
\* parse, the FetchedTranscript.
transcript_fetch_async(self, preserve_formatting, response) ==
    LET checked == raise_http_errors(response, self.video_id)
    IN  IF checked.kind = "exception"
        THEN checked
        ELSE LET snippets == parse(preserve_formatting, response.body)
             IN  IF snippets.kind = "exception"
                 THEN snippets
                 ELSE [ kind |-> "FetchedTranscript", snippets |-> snippets.value,
                        video_id |-> self.video_id, language |-> self.language,
                        language_code |-> self.language_code,
                        is_generated |-> self.is_generated ]

\* __aexit__ of the semaphore only on the way out of a return: a pipeline
\* that raises keeps its permit.
aexit_on_return(value, task_result) ==
    IF task_result.kind = "exception" THEN value ELSE value + 1

\* async with self._semaphore, on the way out: release(), whether the block
\* returned or raised.
aexit(value, task_result) == value + 1

\* str(exc) and exc.__dict__ of an exception, by the fields of the model.
exception_message(exc) == << "str", exc.type, exc.video_id >>

\* AsyncTranscriptHandler._serialize_exception
serialize_exception(exc) ==
    [ kind |-> "dict", type |-> exc.type, message |-> exception_message(exc),
      attributes |-> exc ]

BulkFetchResults(vid, bulk_result) ==
    [kind |-> "BulkFetchResults", video_id |-> vid, result |-> bulk_result]

Min(a, b) == IF a <= b THEN a ELSE b

\* _process_bulk_results keeping the pairs of the pipelines that returned.
RECURSIVE process_bulk_results_returned(_, _)
process_bulk_results_returned(video_ids, results) ==
    IF video_ids = << >> \/ results = << >>
    THEN << >>
    ELSE LET rest == process_bulk_results_returned(Tail(video_ids), Tail(results))
         IN  IF Head(results).kind = "exception"
             THEN rest
             ELSE << BulkFetchResults(Head(video_ids), Head(results)) >> \o rest

\* AsyncTranscriptHandler._process_bulk_results: zip(video_ids, results), an
\* Exception serialized, anything else as it is.
process_bulk_results(video_ids, results) ==
    [ i \in 1..Min(Len(video_ids), Len(results)) |->
        IF results[i].kind = "exception"
        THEN BulkFetchResults(video_ids[i], serialize_exception(results[i]))
        ELSE BulkFetchResults(video_ids[i], results[i]) ]

\* ------------------------------------------------------ fetch_bulk as a run
\* The proxy configurations of the handler's fetcher.
BulkProxyConfigs == {NoProxy, WebshareProxyConfig(2)}

\* video_ids: the first entries of a list that names one video twice.
RequestedVideoIds == << << "a", "b", "c" >>, HTTPS_PREFIX \o << "y" >>, << "a", "b", "c" >> >>

VideoIdLists ==
    { [i \in 1..n |-> RequestedVideoIds[((i - 1) % Len(RequestedVideoIds)) + 1]] :
        n \in 0..MaxVideos }

NoBody == [kind |-> "none"]

\* The responses to GET WATCH_URL.
WatchResponses ==
    { Response(429, NoBody), Response(404, NoBody),
      Response(200, WatchHtml(TRUE, None, FALSE, FALSE)),
      Response(200, WatchHtml(FALSE, None, FALSE, TRUE)),
      Response(200, WatchHtml(FALSE, None, FALSE, FALSE)),
      Response(200, WatchHtml(FALSE, None, TRUE, FALSE)) }
    \cup { Response(200, WatchHtml(TRUE, t, FALSE, FALSE)) : t \in ConsentTokens }

PlayabilityOk == PlayabilityStatusData(TRUE, STATUS_OK, Absent, FALSE, << >>)

\* The responses to POST INNERTUBE_API_URL.
InnertubeResponses ==
    { Response(429, NoBody), Response(404, NoBody),
      Response(200, InnertubeData(NoPlayabilityStatus, Captions("NoCaptions", << >>))),
      Response(200, InnertubeData(
          PlayabilityStatusData(TRUE, STATUS_LOGIN_REQUIRED, BOT_DETECTED, FALSE, << >>),
          Captions("NoCaptions", << >>))),
      Response(200, InnertubeData(PlayabilityOk, Captions("NoCaptions", << >>))),
      Response(200, InnertubeData(PlayabilityOk,
                                  Captions("CaptionTracks", << Track("de", Absent) >>))),
      Response(200, InnertubeData(PlayabilityOk,
                                  Captions("CaptionTracks", << Track("en", Absent) >>))),
      Response(200, InnertubeData(PlayabilityOk,
          Captions("CaptionTracks",
                   << CaptionTrack(PoTokenUrl, "English", "en", Absent, FALSE) >>))) }

\* The responses to GET of a caption track's URL.
CaptionGetResponses ==
    { Response(429, NoBody), Response(404, NoBody),
      Response(200, RawData(FALSE, << >>)),
      Response(200, RawData(TRUE, << XmlElement(TRUE, << "a" >>, "0.0", "1.54") >>)) }

BulkCalls ==
    [ video_ids : VideoIdLists, languages : { << "en" >> },
      preserve_formatting : {FALSE}, max_concurrent : {0, 1, MaxConcurrent} ]

\* AsyncTranscriptHandler(fetcher, proxy_config, max_concurrent) and the
\* call of fetch_bulk up to asyncio.gather: the semaphore with all its
\* permits, one coroutine per entry of video_ids.
InitBulk ==
    /\ proxy_config \in BulkProxyConfigs
    /\ video_id = << "a", "b", "c" >>
    /\ InitFetch
    /\ input \in BulkCalls
    /\ output = NoResult
    /\ semaphore = input.max_concurrent
    /\ tasks = [i \in 1..Len(input.video_ids) |-> NewTask]

\* The coroutine i resumes as next_task; when that ends fetch_single the
\* permit goes back.
Resume(i, next_task) ==
    /\ tasks' = [tasks EXCEPT ![i] = next_task]
    /\ semaphore' = IF next_task.pc = "done"
                    THEN aexit(semaphore, next_task.result)
                    ELSE semaphore

\* async with self._semaphore, on the way in: a permit is taken when one is
\* free, and the GET of the watch page is sent.
Acquire(i) ==
    /\ i \in DOMAIN tasks
    /\ tasks[i].pc = "semaphore"
    /\ semaphore > 0
    /\ semaphore' = semaphore - 1
    /\ tasks' = [tasks EXCEPT ![i].pc = "fetch_html"]
    /\ UNCHANGED << fetch_vars, input, output >>

\* The response to the first GET of _fetch_video_html arrives:
\* _raise_http_errors, the consent form (cookie and second GET), else the
\* innertube key and the POST.
FetchHtml(i, response) ==
    /\ i \in DOMAIN tasks
    /\ tasks[i].pc = "fetch_html"
    /\ LET vid == input.video_ids[i]
           checked == raise_http_errors(response, vid)
       IN  IF checked.kind = "exception"
           THEN /\ Resume(i, raised_in_fetch_captions_json(tasks[i], checked, proxy_config))
                /\ UNCHANGED cookies
           ELSE IF response.body.consent
                THEN IF response.body.token = None
                     THEN /\ Resume(i, safe_fetch(tasks[i],
                                 Exc("FailedToCreateConsentCookie", vid, 0)))
                          /\ UNCHANGED cookies
                     ELSE /\ cookies' = consent_cookie_value(response.body.token)
                          /\ Resume(i, [tasks[i] EXCEPT !.pc = "refetch_html"])
                ELSE /\ Resume(i, after_fetch_video_html(tasks[i], response.body, vid,
                                                         proxy_config))
                     /\ UNCHANGED cookies
    /\ UNCHANGED << proxy_config, video_id, pc, try_number, html, requests, exception,
                    caught, result, fetched, input, output >>

\* The response to the second GET of _fetch_video_html arrives.
RefetchHtml(i, response) ==
    /\ i \in DOMAIN tasks
    /\ tasks[i].pc = "refetch_html"
    /\ LET vid == input.video_ids[i]
           checked == raise_http_errors(response, vid)
       IN  IF checked.kind = "exception"
           THEN Resume(i, raised_in_fetch_captions_json(tasks[i], checked, proxy_config))
           ELSE IF response.body.consent
                THEN Resume(i, safe_fetch(tasks[i],
                         Exc("FailedToCreateConsentCookie", vid, 0)))
                ELSE Resume(i, after_fetch_video_html(tasks[i], response.body, vid,
                                                      proxy_config))
    /\ UNCHANGED << fetch_vars, input, output >>

\* The response to the POST of _fetch_innertube_data arrives:
\* _raise_http_errors, _extract_captions_json, then fetch_single up to the
\* GET of the caption track.
FetchInnertubeData(i, response) ==
    /\ i \in DOMAIN tasks
    /\ tasks[i].pc = "fetch_innertube_data"
    /\ LET vid == input.video_ids[i]
           checked == raise_http_errors(response, vid)
       IN  IF checked.kind = "exception"
           THEN Resume(i, raised_in_fetch_captions_json(tasks[i], checked, proxy_config))
           ELSE LET captions_json ==
                        extract_captions_json_async(response.body, vid)
                IN  IF captions_json.kind = "exception"
                    THEN Resume(i, raised_in_fetch_captions_json(tasks[i], captions_json,
                                                                 proxy_config))
                    ELSE Resume(i, after_fetch_captions_json(tasks[i], captions_json, vid,
                                                             input.languages))
    /\ UNCHANGED << fetch_vars, input, output >>

\* The response to the GET of TranscriptAsync.fetch arrives; fetch_single
\* returns or raises what it gives.
FetchCaptions(i, response) ==
    /\ i \in DOMAIN tasks
    /\ tasks[i].pc = "fetch"
    /\ Resume(i, safe_fetch(tasks[i],
                 transcript_fetch_async(tasks[i].transcript, input.preserve_formatting,
                                        response)))
    /\ UNCHANGED << fetch_vars, input, output >>

\* results of asyncio.gather: what the coroutines returned, in the order of
\* the coroutines.
gather(ts) == [i \in DOMAIN ts |-> ts[i].result]

\* asyncio.gather returns when every coroutine has; fetch_bulk returns
\* _process_bulk_results(video_ids, results).
FetchBulkReturn ==
    /\ output = NoResult
    /\ \A i \in DOMAIN tasks : tasks[i].pc = "done"
    /\ output' = [kind |-> "list", value |-> process_bulk_results(input.video_ids, gather(tasks))]
    /\ UNCHANGED << fetch_vars, bulk_vars, input >>

NextBulk ==
    \/ \E i \in 1..MaxVideos : Acquire(i)
    \/ \E i \in 1..MaxVideos, response \in WatchResponses : FetchHtml(i, response)
    \/ \E i \in 1..MaxVideos, response \in WatchResponses : RefetchHtml(i, response)
    \/ \E i \in 1..MaxVideos, response \in InnertubeResponses : FetchInnertubeData(i, response)
    \/ \E i \in 1..MaxVideos, response \in CaptionGetResponses : FetchCaptions(i, response)
    \/ FetchBulkReturn

SpecBulk == InitBulk /\ [][NextBulk]_vars

\* The event loop resumes every coroutine that can run and every request is
\* answered.
SpecBulkFair == SpecBulk /\ WF_vars(NextBulk)

\* ------------------------------------------------ get_transcripts on its own
\* _api.py: YouTubeTranscriptApi.get_transcripts.  get_transcript is the
\* call to the platform: retrieved[i] tells whether the call for entry i of
\* video_ids returns a transcript or raises CouldNotRetrieveTranscript.

\* What get_transcript returns for the call number n, on video_id.
TranscriptOf(vid, n) == [kind |-> "transcript", video_id |-> vid, call |-> n]

\* get_transcripts has returned (data, unretrievable_videos) or raised; calls
\* are the video ids get_transcript was called with, in order.
GetTranscriptsResult(kind_, data, unretrievable_videos, raised, calls) ==
    [ kind |-> kind_, data |-> data, unretrievable_videos |-> unretrievable_videos,
      exception |-> raised, calls |-> calls ]

\* The loop of get_transcripts from entry i.
RECURSIVE get_transcripts_loop(_, _, _, _, _, _, _)
get_transcripts_loop(video_ids, continue_after_error, retrieved, i, data, unretrievable_videos, calls) ==
    IF i > Len(video_ids)
    THEN GetTranscriptsResult("returned", data, unretrievable_videos, NoException, calls)
    ELSE LET vid == video_ids[i]
             called == Append(calls, vid)
         IN  IF retrieved[i]
             THEN get_transcripts_loop(video_ids, continue_after_error, retrieved, i + 1,
                                       dict_set(data, vid, TranscriptOf(vid, i)),
                                       unretrievable_videos, called)
             ELSE IF ~continue_after_error
                  THEN GetTranscriptsResult("raised", data, unretrievable_videos,
                                            Exc("CouldNotRetrieveTranscript", vid, 0), called)
                  ELSE get_transcripts_loop(video_ids, continue_after_error, retrieved,
                                            i + 1, data,
                                            Append(unretrievable_videos, vid), called)

\* get_transcripts that raises the first failure whatever continue_after_error is.
get_transcripts_raising(video_ids, continue_after_error, retrieved) ==
    get_transcripts_loop(video_ids, FALSE, retrieved, 1, EmptyDict, << >>, << >>)

\* YouTubeTranscriptApi.get_transcripts(video_ids, languages,
\* continue_after_error, proxies)
get_transcripts(video_ids, continue_after_error, retrieved) ==
    get_transcripts_loop(video_ids, continue_after_error, retrieved, 1, EmptyDict,
                         << >>, << >>)

GetTranscriptsInputs ==
    UNION { [ video_ids : [1..n -> VideoIds], continue_after_error : BOOLEAN,
              retrieved : [1..n -> BOOLEAN] ] : n \in 0..MaxVideos }

InitGetTranscripts ==
    /\ proxy_config = NoProxy
    /\ video_id = << "a", "b", "c" >>
    /\ InitFetch
    /\ NoBulk
    /\ input \in GetTranscriptsInputs
    /\ output = NoResult

\* YouTubeTranscriptApi.get_transcripts(video_ids, continue_after_error=...)
GetTranscripts ==
    /\ output = NoResult
    /\ output' = get_transcripts(input.video_ids, input.continue_after_error,
                                 input.retrieved)
    /\ UNCHANGED << fetch_vars, bulk_vars, input >>

NextGetTranscripts == GetTranscripts

SpecGetTranscripts == InitGetTranscripts /\ [][NextGetTranscripts]_vars

\* ============================================================== properties
Max(a, b) == IF a >= b THEN a ELSE b

\* N of the claims: retries_when_blocked of the proxy configuration, 0 when
\* no proxy is configured.
N == IF proxy_config.kind = "None" THEN 0 ELSE proxy_config.retries

BlockedTypes == {"RequestBlocked", "IpBlocked"}

\* fetch has ended.
Returned == pc \in {"done", "fetched"}

RaisedBlocked == Returned /\ result.kind = "exception" /\ result.type \in BlockedTypes

RaisedOther == Returned /\ result.kind = "exception" /\ result.type \notin BlockedTypes

WatchRequests == {i \in DOMAIN requests : requests[i].url = "watch"}

\* An attempt starts with one watch-page request that is not a re-fetch.
Attempts == Cardinality({i \in WatchRequests : ~requests[i].refetch})

WatchRequestsOf(try) == {i \in WatchRequests : requests[i].try = try}

LastWatchRequest == requests[CHOOSE i \in WatchRequests : \A j \in WatchRequests : j <= i]

\* C1: when every attempt is blocked, exactly max(1, N) attempts are made
\* and the block is then raised: no state has more than max(1, N) attempts,
\* and a block reaches the caller only after max(1, N) attempts, all blocked.
C1_ExactlyMaxOneNAttempts ==
    /\ Attempts <= Max(1, N)
    /\ RaisedBlocked =>
          /\ Attempts = Max(1, N)
          /\ try_number + 1 = Attempts
          /\ caught # {} /\ caught \subseteq BlockedTypes

\* C1 witness: a WebshareProxyConfig with retries_when_blocked = 5 is
\* blocked five times and the block is raised after 5 watch-page requests.
C1_Witness ==
    /\ RaisedBlocked
    /\ proxy_config = WebshareProxyConfig(5)
    /\ Attempts = 5
    /\ Len(requests) = 5

\* C2: when every attempt is blocked, the first blocked attempt is followed
\* by N retries before the block is raised, N + 1 attempts in all.
C2_BlockedAttemptIsRetriedNTimes ==
    RaisedBlocked => Attempts - 1 = N

\* C3: k blocked attempts (k < N) followed by an attempt that is not blocked
\* end the fetch with the outcome of attempt k + 1 after exactly k + 1
\* attempts; a block is not raised while fewer than N attempts were made, and
\* nothing but the caption request follows the attempt that was not blocked.
C3_FirstUnblockedAttemptReturns ==
    /\ (Returned /\ ~RaisedBlocked) =>
          /\ Attempts = try_number + 1
          /\ try_number = 0 \/ try_number < N
          /\ caught \subseteq BlockedTypes
          /\ (try_number > 0) => (caught # {})
          /\ LastWatchRequest.try = try_number
          /\ (result.kind = "exception") => (result.raised_in = try_number)
          /\ (result.kind = "TranscriptList") =>
                /\ html.parsed
                /\ result.video_id = video_id
                /\ DOMAIN result.manually_created \cup DOMAIN result.generated
                      = {html.captions.tracks[i].languageCode :
                           i \in DOMAIN html.captions.tracks}
          /\ Cardinality({i \in DOMAIN requests : requests[i].url = "timedtext"})
                = (IF pc = "fetched" THEN 1 ELSE 0)
    /\ RaisedBlocked => ~(Attempts < N)

\* C3 witness: three blocked pages, then a good page, then the caption
\* request: 4 watch-page requests and one caption request.
C3_Witness ==
    /\ pc = "fetched"
    /\ result.kind = "TranscriptList"
    /\ try_number = 3
    /\ Cardinality(WatchRequests) = 4
    /\ Len(requests) = 5
    /\ requests[5].url = "timedtext"

\* C4: the block that reaches the caller is the instance the last attempt
\* raised, it carries the fetcher's proxy configuration, and its cause is the
\* Webshare text for a WebshareProxyConfig, the generic-proxy text for
\* another GenericProxyConfig and the text of its own class without a proxy.
C4_BlockCarriesProxyConfig ==
    RaisedBlocked =>
       /\ result.raised_in = try_number
       /\ Attempts = try_number + 1
       /\ result.video_id = video_id
       /\ result.proxy_config = proxy_config
       /\ (proxy_config.kind = "Webshare") =>
             (cause(result) = <<"RequestBlocked", "WITH_WEBSHARE_PROXY_CAUSE_MESSAGE">>)
       /\ (proxy_config.kind = "Generic") =>
             (cause(result) = <<"RequestBlocked", "WITH_GENERIC_PROXY_CAUSE_MESSAGE">>)
       /\ (proxy_config.kind = "None") =>
             (cause(result) = <<result.type, "CAUSE_MESSAGE">>)

\* C4 witness: an IpBlocked raised in the third attempt reaches the caller
\* with the Webshare configuration.
C4_Witness ==
    /\ RaisedBlocked
    /\ result.type = "IpBlocked"
    /\ result.raised_in = 2
    /\ proxy_config = WebshareProxyConfig(3)
    /\ cause(result) = WITH_WEBSHARE_PROXY_CAUSE_MESSAGE

\* C5: a failure that is not a block ends the fetch in the attempt where it
\* occurs, whatever retries_when_blocked is: only blocks are ever caught, and
\* the failure reaches the caller as raised, without a proxy configuration.
C5_OtherFailuresEndTheFetch ==
    /\ caught \subseteq BlockedTypes
    /\ RaisedOther =>
          /\ result.raised_in = try_number
          /\ Attempts = try_number + 1
          /\ LastWatchRequest.try = result.raised_in
          /\ result.video_id = video_id
          /\ result.proxy_config = NoProxy /\ ~result.annotated
          /\ pc = "done" /\ fetched = NoResult

\* C5 witness: AgeRestricted in the second attempt of a configuration that
\* allows five ends the fetch.
C5_Witness ==
    /\ RaisedOther
    /\ result.type = "AgeRestricted"
    /\ proxy_config = WebshareProxyConfig(5)
    /\ try_number = 1
    /\ Attempts = 2

\* A watch-page request whose response shows the consent form with a token.
ConsentWithToken(r) ==
    r.url = "watch" /\ ~r.refetch /\ r.consent \notin {Absent, None}

\* C6: a first watch page with the consent marker and a token makes the
\* fetcher set CONSENT to "YES+" and the token before the re-fetch; the
\* re-fetch happens once, directly after that page and in the same attempt;
\* it and every later request carry the cookie; extraction runs on a page
\* without the consent marker.
C6_ConsentCookieBeforeRefetch ==
    /\ \A i \in DOMAIN requests :
          /\ ConsentWithToken(requests[i]) =>
                \/ /\ i = Len(requests)
                   /\ pc = "refetch_video_html"
                   /\ cookies = "YES+" \o requests[i].consent
                \/ /\ i < Len(requests)
                   /\ requests[i + 1].url = "watch"
                   /\ requests[i + 1].refetch
                   /\ requests[i + 1].try = requests[i].try
                   /\ requests[i + 1].cookie = "YES+" \o requests[i].consent
          /\ requests[i].refetch =>
                /\ i > 1
                /\ ConsentWithToken(requests[i - 1])
          /\ \A j \in DOMAIN requests :
                (ConsentWithToken(requests[i]) /\ j > i) =>
                   \E k \in i..(j - 1) :
                      /\ ConsentWithToken(requests[k])
                      /\ requests[j].cookie = "YES+" \o requests[k].consent
    /\ (pc = "extract_captions_json") =>
          /\ html.ok /\ ~html.consent
          /\ requests[Len(requests)].consent = Absent

\* C6 witness: consent page, re-fetch and caption request: three requests,
\* the last two with the cookie, as in
\* test_fetch__create_consent_cookie_if_needed.
C6_Witness ==
    /\ pc = "fetched"
    /\ Len(requests) = 3
    /\ requests[1].cookie = Absent
    /\ requests[2].refetch
    /\ requests[2].cookie = "YES+cb.20210328-17-p0.de+FX+119"
    /\ requests[3].url = "timedtext"
    /\ requests[3].cookie = "YES+cb.20210328-17-p0.de+FX+119"

RaisedFailedToCreateConsentCookie ==
    /\ Returned
    /\ result.kind = "exception"
    /\ result.type = "FailedToCreateConsentCookie"

\* The consent page holds no token.
ConsentWithoutToken(r) == r.url = "watch" /\ ~r.refetch /\ r.consent = None

\* The re-fetched page still shows the consent marker.
RefetchWithConsent(r) == r.url = "watch" /\ r.refetch /\ r.consent # Absent

\* C7: FailedToCreateConsentCookie is raised exactly when the consent page
\* holds no token (no cookie is set, no re-fetch) or the one re-fetch still
\* shows the marker (no third request); it is not retried, and no attempt
\* sends more than two watch-page requests.
C7_ConsentFailureIsBounded ==
    /\ RaisedFailedToCreateConsentCookie <=>
          /\ requests # << >>
          /\ \/ ConsentWithoutToken(requests[Len(requests)])
             \/ RefetchWithConsent(requests[Len(requests)])
    /\ RaisedFailedToCreateConsentCookie =>
          /\ result.raised_in = try_number
          /\ Attempts = try_number + 1
          /\ result.proxy_config = NoProxy
          /\ pc = "done"
          /\ ConsentWithoutToken(requests[Len(requests)]) =>
                /\ cookies = requests[Len(requests)].cookie
                /\ Cardinality(WatchRequestsOf(try_number)) = 1
          /\ RefetchWithConsent(requests[Len(requests)]) =>
                Cardinality(WatchRequestsOf(try_number)) = 2
    /\ \A try \in 0..try_number : Cardinality(WatchRequestsOf(try)) <= 2

\* C7 witness: in the second attempt of a proxied fetch the re-fetched page
\* is the consent page again.
C7_Witness ==
    /\ RaisedFailedToCreateConsentCookie
    /\ try_number = 1
    /\ N > 2
    /\ RefetchWithConsent(requests[Len(requests)])

\* The video id starts with http:// or https://.
LooksLikeUrl(vid) ==
    \E n \in 1..Len(vid) : SubSeq(vid, 1, n) \in {HTTP_PREFIX, HTTPS_PREFIX}

\* The text of each run of the fragment's subreason, none without runs.
SubReasonTexts(psd) ==
    IF psd.has_runs
    THEN [i \in 1..Len(psd.runs) |->
            IF psd.runs[i].text = Absent THEN "" ELSE psd.runs[i].text]
    ELSE << >>

\* The outcome the decision table gives a playability fragment.
TableOutcome(psd, vid) ==
    CASE psd.status \in {STATUS_OK, Absent} -> "pass"
      [] psd.status = "LOGIN_REQUIRED" /\ psd.reason = BOT_DETECTED -> "RequestBlocked"
      [] psd.status = "LOGIN_REQUIRED" /\ psd.reason = AGE_RESTRICTED -> "AgeRestricted"
      [] psd.status = "ERROR" /\ psd.reason = VIDEO_UNAVAILABLE ->
            IF LooksLikeUrl(vid) THEN "InvalidVideoId" ELSE "VideoUnavailable"
      [] OTHER -> "VideoUnplayable"

\* C8: the classifier gives every (status, reason, video id) the outcome of
\* the decision table, and a VideoUnplayable carries the reason and the text
\* of every sub-reason run.
C8_PlayabilityDecisionTable ==
    (output # NoResult /\ input.present) =>
       LET outcome == TableOutcome(input, video_id)
       IN  /\ (outcome = "pass") <=> (output.kind = "pass")
           /\ (outcome # "pass") =>
                 /\ output.kind = "exception"
                 /\ output.type = outcome
                 /\ output.video_id = video_id
           /\ (outcome = "VideoUnplayable") =>
                 /\ output.reason = (IF input.reason = Absent THEN None ELSE input.reason)
                 /\ output.sub_reasons = SubReasonTexts(input)

\* C8 witness: ERROR with "Video unavailable" for a video id that is an
\* https:// URL is classified InvalidVideoId.
C8_Witness ==
    /\ output # NoResult
    /\ input.present
    /\ input.status = STATUS_ERROR
    /\ input.reason = VIDEO_UNAVAILABLE
    /\ video_id = HTTPS_PREFIX \o <<"y">>
    /\ output.type = "InvalidVideoId"

\* The playability check passes on the page.
PlayabilityPasses(page) ==
    /\ page.parsed
    /\ page.playability.present
    /\ page.playability.status \in {STATUS_OK, Absent}

\* The caption-track collection of the page is absent or empty.
CaptionTracksAbsentOrEmpty(page) ==
    \/ page.captions.level \in {"NoCaptions", "NoRenderer", "NoCaptionTracks"}
    \/ page.captions.tracks = << >>

\* C9: TranscriptsDisabled is raised exactly when the playability check has
\* passed and the caption-track collection is absent or empty, and no
\* TranscriptList with zero tracks is returned.
C9_TranscriptsDisabledWhenAbsentOrEmpty ==
    /\ (pc = "extract_captions_json") =>
          LET extracted == extract_captions_json(html, video_id, try_number)
          IN  (extracted.kind = "exception" /\ extracted.type = "TranscriptsDisabled")
                 <=> (PlayabilityPasses(html) /\ CaptionTracksAbsentOrEmpty(html))
    /\ (result.kind = "TranscriptList") => (transcripts_of(result) # {})

\* C10: when the extraction of the embedded config fails as data-unparsable
\* the fetcher raises IpBlocked if the page has the CAPTCHA marker and
\* YouTubeDataUnparsable otherwise; a page whose config parses is never
\* reported IpBlocked; the IpBlocked is caught, retried and re-raised with
\* the proxy configuration like any RequestBlocked.
C10_CaptchaCheckedAfterExtractionFails ==
    /\ [][(pc = "extract_captions_json") =>
            /\ (~html.parsed /\ html.captcha) =>
                  /\ pc' = "except_request_blocked"
                  /\ exception'.type = "IpBlocked"
                  /\ exception'.raised_in = try_number
                  /\ result' = NoResult
            /\ (~html.parsed /\ ~html.captcha) =>
                  /\ pc' = "done"
                  /\ result'.kind = "exception"
                  /\ result'.type = "YouTubeDataUnparsable"
            /\ html.parsed =>
                  /\ exception'.type # "IpBlocked"
                  /\ (result'.kind = "exception") =>
                        (result'.type \notin {"IpBlocked", "YouTubeDataUnparsable"})
         ]_vars
    /\ [][(pc = "except_request_blocked" /\ exception.type = "IpBlocked") =>
            IF try_number + 1 < N
            THEN pc' = "fetch_video_html" /\ try_number' = try_number + 1 /\ result' = NoResult
            ELSE /\ pc' = "done"
                 /\ result'.type = "IpBlocked"
                 /\ result'.proxy_config = proxy_config
         ]_vars

\* C10 witness: IpBlocked raised in the second attempt, after a retry, has
\* reached the caller.
C10_Witness ==
    /\ RaisedBlocked
    /\ result.type = "IpBlocked"
    /\ caught = {"IpBlocked"}
    /\ try_number = 1
    /\ N = 2


\* The subclasses of CouldNotRetrieveTranscript (_errors.py).
CouldNotRetrieveTranscript ==
    { "YouTubeDataUnparsable", "YouTubeRequestFailed", "VideoUnplayable",
      "VideoUnavailable", "InvalidVideoId", "RequestBlocked", "IpBlocked",
      "TranscriptsDisabled", "AgeRestricted", "NotTranslatable",
      "TranslationLanguageNotAvailable", "FailedToCreateConsentCookie",
      "NoTranscriptFound" }

\* C11: whichever keys the decoded config lacks, fetch ends with a
\* TranscriptList or with an exception of a CouldNotRetrieveTranscript
\* subclass, never with another fault (AttributeError, KeyError).
C11_MissingKeysEndTyped ==
    Returned =>
        \/ result.kind = "TranscriptList"
        \/ result.kind = "exception" /\ result.type \in CouldNotRetrieveTranscript

\* --------------------------------------------------------------- extractor
Contains(s, sub) == find(s, sub, 1) # 0

\* The extractor has been applied to the page.
Extracted == output.kind # "none"

UnparsableFor(vid) == Exc("YouTubeDataUnparsable", vid, 0)

\* The first 'var cfg' of the page is followed, with no "{" in between, by a
\* JSON object whose text does not contain 'var cfg'.
ObjectFollowsMarker ==
    /\ input.marker = Marker
    /\ find(raw_html_of(input), Marker, 1) = Len(input.prefix) + 1
    /\ ~Contains(input.gap, << "{" >>)
    /\ input.object \in Objects
    /\ ~Contains(input.object, Marker)

\* C12 as stated: whenever an object follows 'var cfg' with no "{" in
\* between, the extractor returns the object's text, whatever follows it.
C12_ReturnsObjectAfterMarker ==
    (Extracted /\ ObjectFollowsMarker) => output = VarString(input.object)

\* C12, amended: when the first 'var cfg' is followed, with neither "{" nor
\* another 'var cfg' in between, by a JSON object whose text does not contain
\* 'var cfg', the extractor returns exactly the object's text, from its
\* opening brace through the matching closing brace, whatever follows it.
C12_ReturnsObjectAfterOnlyMarker ==
    (Extracted /\ ObjectFollowsMarker /\ ~Contains(input.gap, Marker))
        => output = VarString(input.object)

\* `var cfg = {"a": "}", "b": {"c": 1}};` has yielded {"a": "}", "b": {"c": 1}}.
C12_Witness ==
    /\ raw_html_of(input) = Marker \o << " ", "=", " " >> \o ExampleObject \o << ";" >>
    /\ output = VarString(ExampleObject)

\* Character i of s follows an unescaped backslash.
RECURSIVE Escaped(_, _)
Escaped(s, i) == i > 1 /\ s[i - 1] = "\\" /\ ~Escaped(s, i - 1)

\* Character i of s lies after an odd number of unescaped quotes.
InQuotes(s, i) ==
    Cardinality({k \in 1..(i - 1) : s[k] = "\"" /\ ~Escaped(s, k)}) % 2 = 1

\* The positions of the braces of s that are neither escaped nor quoted.
UnquotedBraces(s, brace) ==
    {k \in 1..Len(s) : s[k] = brace /\ ~Escaped(s, k) /\ ~InQuotes(s, k)}

\* The depth after character j of the text that follows an opening brace.
DepthAfter(rest, j) ==
    1 + Cardinality({k \in UnquotedBraces(rest, "{") : k <= j})
      - Cardinality({k \in UnquotedBraces(rest, "}") : k <= j})

\* The piece the extractor scans: between the first 'var cfg' and the next.
ScannedPiece == split(raw_html_of(input), Marker)[2]

\* The piece has an opening brace and ends before the depth is back at 0.
StreamEndsEarly ==
    /\ Contains(raw_html_of(input), Marker)
    /\ Contains(ScannedPiece, << "{" >>)
    /\ LET brace == find(ScannedPiece, << "{" >>, 1)
           rest == SubSeq(ScannedPiece, brace + 1, Len(ScannedPiece))
       IN  \A j \in 1..Len(rest) : DepthAfter(rest, j) # 0

Balanced(value) ==
    Cardinality(UnquotedBraces(value, "{")) = Cardinality(UnquotedBraces(value, "}"))

Codes == input.language_codes

ManuallyCreated == input.self.manually_created

Generated == input.self.generated

\* A find operation has been applied.
Found == output.kind # "none"

\* The positions of the requested codes that have a track of any kind.
Hits == {i \in DOMAIN Codes : Codes[i] \in DOMAIN ManuallyCreated \cup DOMAIN Generated}

\* C14: find_transcript returns the track of the first requested code that
\* is a key of either mapping, the manually created one when the code is a
\* key of both.
C14_FirstRequestedCodeManualPreferred ==
    (Found /\ input.method = "find_transcript" /\ Hits # {}) =>
        LET first == CHOOSE i \in Hits : \A j \in Hits : i <= j
            code == Codes[first]
        IN  /\ output.kind = "Transcript"
            /\ output.language_code = code
            /\ output = IF code \in DOMAIN ManuallyCreated
                        THEN ManuallyCreated[code]
                        ELSE Generated[code]

\* ['de', 'en'] on a list without 'de' and with both kinds of 'en' has given
\* the manually created 'en'.
C14_Witness ==
    /\ Found
    /\ input.method = "find_transcript"
    /\ Codes = << "de", "en" >>
    /\ "de" \notin DOMAIN ManuallyCreated \cup DOMAIN Generated
    /\ "en" \in DOMAIN ManuallyCreated \cap DOMAIN Generated
    /\ output = ManuallyCreated["en"]
    /\ ~output.is_generated

\* C15: find_transcript returns a generated transcript only if none of the
\* requested codes has a manually created transcript.
C15_GeneratedOnlyIfNoManual ==
    (Found /\ input.method = "find_transcript"
           /\ output.kind = "Transcript" /\ output.is_generated) =>
        \A i \in DOMAIN Codes : Codes[i] \notin DOMAIN ManuallyCreated

\* The mappings an operation considers.
Considered ==
    CASE input.method = "find_transcript" -> DOMAIN ManuallyCreated \cup DOMAIN Generated
      [] input.method = "find_generated_transcript" -> DOMAIN Generated
      [] input.method = "find_manually_created_transcript" -> DOMAIN ManuallyCreated

\* C16: each find operation raises NoTranscriptFound exactly when no
\* requested code is a key of a mapping it considers; the exception carries
\* the video id, the requested codes and the list, and no operation changes
\* the list.
C16_NoTranscriptFoundExactlyWhenNoKey ==
    /\ [](Found =>
            /\ (output.kind = "exception")
                   <=> (\A i \in DOMAIN Codes : Codes[i] \notin Considered)
            /\ output.kind = "exception" =>
                   output = NoTranscriptFound(video_id, Codes, input.self)
            /\ output.kind # "exception" =>
                   output.kind = "Transcript" /\ output.language_code \in Considered)
    /\ [][input'.self = input.self]_vars

\* find_generated_transcript(['cs']) has failed on a list whose only 'cs'
\* is manually created.
C16_Witness ==
    /\ Found
    /\ input.method = "find_generated_transcript"
    /\ Codes = << "cs" >>
    /\ "cs" \in DOMAIN ManuallyCreated
    /\ output.kind = "exception"
    /\ output.type = "NoTranscriptFound"

\* ------------------------------------------------------------------ build
\* build has returned a TranscriptList.
Built == output.kind = "TranscriptList"

\* The codes of the raw tracks whose kind is "asr", and of the others.
AsrCodes ==
    {input.tracks[i].languageCode : i \in {j \in DOMAIN input.tracks : input.tracks[j].kind = "asr"}}

OtherCodes ==
    {input.tracks[i].languageCode : i \in {j \in DOMAIN input.tracks : input.tracks[j].kind # "asr"}}

\* C17 as stated: in a TranscriptList build produces, no language code is a
\* key of both mappings.
C17_MappingsDisjoint ==
    Built => DOMAIN output.manually_created \cap DOMAIN output.generated = {}

\* C17, amended: in a TranscriptList build produces, a language code is a
\* key of both mappings exactly when captionTracks holds both an "asr" track
\* and another track of that code; manually_created holds the codes of the
\* tracks that are not "asr", generated those of the "asr" tracks, and each
\* mapping only transcripts of its own kind.
C17_MappingsDisjointUnlessBothKinds ==
    Built =>
        /\ DOMAIN output.manually_created = OtherCodes
        /\ DOMAIN output.generated = AsrCodes
        /\ DOMAIN output.manually_created \cap DOMAIN output.generated
               = AsrCodes \cap OtherCodes
        /\ \A code \in DOMAIN output.manually_created :
               ~output.manually_created[code].is_generated
        /\ \A code \in DOMAIN output.generated :
               output.generated[code].is_generated

\* build has put "en" into both mappings and "de" into one.
C17_Witness ==
    /\ Built
    /\ "en" \in DOMAIN output.manually_created \cap DOMAIN output.generated
    /\ "de" \in DOMAIN output.generated
    /\ "de" \notin DOMAIN output.manually_created

\* -------------------------------------------------------------- translate
\* translate has been called and has ended.
TranslateEnded == output.kind # "none"

\* The language codes of the Transcript's translation languages.
TranslationCodes ==
    { input.transcript.translation_languages[i].language_code :
        i \in DOMAIN input.transcript.translation_languages }

\* A step of translate leaves the Transcript it is called on as it was.
TranslateLeavesOriginal == [][Translate => input'.transcript = input.transcript]_vars

\* C18: translate(code) on a Transcript whose translation languages include
\* code returns a Transcript with the URL of the original followed by
\* "&tlang=" and code, language_code code, the display name of that language
\* as language, is_generated true and no translation languages; the
\* original is unchanged.
C18_TranslateReturnsNewTranscript ==
    /\ []((TranslateEnded /\ input.language_code \in TranslationCodes) =>
            /\ output.kind = "Transcript"
            /\ output.video_id = input.transcript.video_id
            /\ output.url = input.transcript.url \o "&tlang=" \o input.language_code
            /\ output.language_code = input.language_code
            /\ \E i \in DOMAIN input.transcript.translation_languages :
                   /\ input.transcript.translation_languages[i].language_code
                          = input.language_code
                   /\ input.transcript.translation_languages[i].language = output.language
            /\ output.is_generated
            /\ output.translation_languages = << >>
            /\ ~is_translatable(output))
    /\ TranslateLeavesOriginal

\* The manually created English transcript has been translated to German.
C18_Witness ==
    /\ TranslateEnded
    /\ input.transcript.language_code = "en"
    /\ ~input.transcript.is_generated
    /\ input.language_code = "de"
    /\ output.kind = "Transcript"
    /\ output.language = "German"
    /\ output.url = "/api/timedtext?lang=en&tlang=de"

TranslateRaised(type) == output = Exc(type, input.transcript.video_id, 0)

\* C19: translate raises NotTranslatable whenever the Transcript has no
\* translation languages, whatever the code, and
\* TranslationLanguageNotAvailable when it has some but not the code; no
\* Transcript is returned then and the original is unchanged.
C19_TranslateFailures ==
    /\ []((TranslateEnded /\ input.transcript.translation_languages = << >>)
              => TranslateRaised("NotTranslatable"))
    /\ []((TranslateEnded /\ input.transcript.translation_languages # << >>
                          /\ input.language_code \notin TranslationCodes)
              => TranslateRaised("TranslationLanguageNotAvailable"))
    /\ TranslateLeavesOriginal

\* translate has been called on a Transcript translate returned, with a code
\* the original could be translated to, and has raised NotTranslatable.
C19_Witness ==
    /\ TranslateEnded
    /\ input.translated
    /\ input.transcript.language_code = "de"
    /\ input.language_code = "cs"
    /\ TranslateRaised("NotTranslatable")

\* ------------------------------------------------------------------ parse
\* parse has been applied.
Parsed == output.kind # "none"

Children == input.raw_data.children

\* The document is well-formed caption XML: it parses, and its elements
\* carry a start attribute.
WellFormedCaptionXml ==
    /\ input.raw_data.well_formed
    /\ \A i \in DOMAIN Children : Children[i].start # Absent

\* The positions of the child elements that have text.
WithText == {i \in DOMAIN Children : Children[i].has_text}

\* The position of the k-th element with text.
NthWithText(k) == CHOOSE i \in WithText : Cardinality({j \in WithText : j <= i}) = k

\* C20: for well-formed caption XML, parse returns one snippet for each
\* child element with text and none for the others, in document order:
\* snippet k is made of the k-th element with text.
C20_OneSnippetPerElementWithText ==
    (Parsed /\ WellFormedCaptionXml) =>
        /\ output.kind = "snippets"
        /\ Len(output.value) = Cardinality(WithText)
        /\ Len(output.value) <= Len(Children)
        /\ \A k \in DOMAIN output.value :
               LET element == Children[NthWithText(k)]
               IN  /\ output.value[k].text
                          = html_regex_sub(input.preserve_formatting, unescape(element.text))
                   /\ output.value[k].start = FloatValues[element.start]
                   /\ output.value[k].duration = FloatValues[get(element.dur, "0.0")]

\* A document of an element with text, one without and another with text
\* has given two snippets, the later element's second.
C20_Witness ==
    /\ Parsed
    /\ Len(Children) = 3
    /\ Children[1].has_text /\ ~Children[2].has_text /\ Children[3].has_text
    /\ Children[1].start = "1.54" /\ Children[3].start = "0.0"
    /\ output.kind = "snippets"
    /\ Len(output.value) = 2
    /\ output.value[1].start = 154 /\ output.value[2].start = 0

\* ----------------------------------------------------------- snippet text
\* The decoded text with the tags removed that are to be removed: all of them
\* in default mode, those not named in _FORMATTING_TAGS otherwise.
FilteredText ==
    Flatten([ i \in DOMAIN input.fragments |->
                LET fragment == input.fragments[i]
                IN  IF fragment.is_tag
                       /\ ~(input.preserve_formatting /\ fragment.name \in FORMATTING_TAGS)
                    THEN << >>
                    ELSE fragment.decoded ])

\* C21: the snippet text is the decoded text without its tags in default
\* mode, and without the tags that are not formatting tags, whatever their
\* form, in preserve-formatting mode; the text outside the removed tags is
\* unchanged.
C21_TagsFilteredAfterDecoding ==
    output.kind = "text" => output.value = FilteredText

\* ------------------------------------------------------- Transcript.fetch
\* C22: when the caption payload is not well-formed XML, Transcript.fetch
\* raises YouTubeDataUnparsable with the video id, and returns no snippets.
C22_MalformedXmlIsDataUnparsable ==
    (output.kind # "none" /\ input.response.ok /\ ~input.response.raw_data.well_formed)
        => output = Exc("YouTubeDataUnparsable", input.self.video_id, 0)

\* fetch_bulk has returned its list.
BulkReturned == output.kind = "list"

\* The pipeline of entry i has ended in an exception.
Failed(i) == tasks[i].pc = "done" /\ tasks[i].result.kind = "exception"

\* C23: fetch_bulk returns one result per entry of video_ids, in the order
\* of video_ids, however the pipelines interleave: the result of a pipeline
\* that failed is an error record of the failure raised for that entry, the
\* result of a pipeline that returned is what it returned; a step of one
\* pipeline changes no other pipeline, a pipeline that has ended keeps its
\* result, and fetch_bulk itself returns a list, never an exception.
C23_OneResultPerIdInOrder ==
    /\ [](output.kind \in {"none", "list"})
    /\ [](BulkReturned =>
            /\ Len(output.value) = Len(input.video_ids)
            /\ \A i \in DOMAIN input.video_ids :
                 /\ output.value[i].video_id = input.video_ids[i]
                 /\ IF Failed(i)
                    THEN /\ output.value[i].result.kind = "dict"
                         /\ output.value[i].result.type = tasks[i].result.type
                         /\ output.value[i].result.attributes = tasks[i].result
                         /\ tasks[i].result.video_id \in {input.video_ids[i], << >>}
                    ELSE output.value[i].result = tasks[i].result)
    /\ [][\A i, j \in DOMAIN tasks :
             (i # j /\ tasks'[i] # tasks[i]) => tasks'[j] = tasks[j]]_vars
    /\ [][\A i \in DOMAIN tasks : tasks[i].pc = "done" => tasks'[i] = tasks[i]]_vars

\* fetch_bulk has returned for two entries of which the first failed and the
\* second was fetched.
C23_Witness ==
    /\ BulkReturned
    /\ Len(input.video_ids) >= 2
    /\ Failed(1)
    /\ tasks[2].result.kind = "FetchedTranscript"
    /\ output.value[2].result.kind = "FetchedTranscript"

\* The pipelines that hold a permit: inside async with self._semaphore.
Holders ==
    { i \in DOMAIN tasks :
        tasks[i].pc \in {"fetch_html", "refetch_html", "fetch_innertube_data", "fetch"} }

\* Never more holders than permits, a permit back for every pipeline that
\* ended, and every permit free once fetch_bulk has returned.
PermitsBounded ==
    /\ Cardinality(Holders) <= input.max_concurrent
    /\ semaphore + Cardinality(Holders) = input.max_concurrent
    /\ BulkReturned => (Holders = {} /\ semaphore = input.max_concurrent)

\* Every pipeline has taken its permit at least once.
AllStarted == \A i \in DOMAIN tasks : tasks[i].pc # "semaphore"

\* C24 as stated: at most max_concurrent pipelines hold a permit, a permit
\* is released when its pipeline ends, all permits are free when fetch_bulk
\* returns, and every requested video is eventually started, for every
\* max_concurrent the handler is constructed with.
C24_PermitsBoundedAllStarted ==
    /\ []PermitsBounded
    /\ <>AllStarted

\* C24 for a handler with at least one permit: the same bound and release,
\* and every requested video is eventually started.
C24_PermitsBoundedAllStartedWithPermits ==
    /\ []PermitsBounded
    /\ (input.max_concurrent >= 1) => <>AllStarted

\* One permit, two videos: the second pipeline runs after the first failed
\* and gave its permit back.
C24_Witness ==
    /\ input.max_concurrent = 1
    /\ Len(input.video_ids) >= 2
    /\ Failed(1)
    /\ Holders = {2}
    /\ semaphore = 0

\* C25: in the async pipeline every RequestBlocked or IpBlocked that
\* fetch_single raises to its caller, the IpBlocked of an HTTP 429 on any of
\* the three requests included, has passed the except clause of the retry
\* loop (with_proxy_config was applied) and carries the proxy configuration
\* of the fetcher.
C25_BlockedCarriesProxyConfig ==
    \A i \in DOMAIN tasks :
        (Failed(i) /\ IsRequestBlocked(tasks[i].result)) =>
            /\ tasks[i].result.annotated
            /\ tasks[i].result.proxy_config = proxy_config

\* get_transcripts has returned or raised.
GetTranscriptsEnded == output.kind \in {"returned", "raised"}

\* The entries of video_ids whose call fails.
FailingEntries == { i \in DOMAIN input.video_ids : ~input.retrieved[i] }

\* The elements of a sequence.
Range(s) == { s[i] : i \in DOMAIN s }

\* What get_transcripts does apart from keeping data and
\* unretrievable_videos apart: with continue_after_error it returns, having
\* called get_transcript once per entry in the order of video_ids, and every
\* requested id is a key of data or in unretrievable_videos; without it, the
\* first failure is raised, the calls end with the failing entry, and with
\* no failure every id is a key of data.
GetTranscriptsContract ==
    GetTranscriptsEnded =>
        IF input.continue_after_error \/ FailingEntries = {}
        THEN /\ output.kind = "returned"
             /\ output.calls = input.video_ids
             /\ \A i \in DOMAIN input.video_ids :
                    \/ input.video_ids[i] \in DOMAIN output.data
                    \/ input.video_ids[i] \in Range(output.unretrievable_videos)
             /\ \A i \in DOMAIN input.video_ids :
                    /\ input.retrieved[i] => input.video_ids[i] \in DOMAIN output.data
                    /\ ~input.retrieved[i] =>
                           input.video_ids[i] \in Range(output.unretrievable_videos)
        ELSE LET first == CHOOSE i \in FailingEntries : \A j \in FailingEntries : i <= j
             IN  /\ output.kind = "raised"
                 /\ output.exception.video_id = input.video_ids[first]
                 /\ output.calls = SubSeq(input.video_ids, 1, first)

\* The ids that are both a key of data and in unretrievable_videos.
InBoth == DOMAIN output.data \cap Range(output.unretrievable_videos)

\* The number of entries of video_ids that name vid.
Occurrences(vid) == Cardinality({ i \in DOMAIN input.video_ids : input.video_ids[i] = vid })

\* C26 as stated: the contract above, and no id is both a key of data and in
\* unretrievable_videos.
C26_EveryIdInDataOrUnretrievable ==
    /\ GetTranscriptsContract
    /\ (GetTranscriptsEnded /\ input.continue_after_error) => InBoth = {}

\* C26 for repeated ids: the contract, and an id is both a key of data and in
\* unretrievable_videos only if video_ids names it more than once.
C26_EveryIdInDataOrUnretrievableOnce ==
    /\ GetTranscriptsContract
    /\ (GetTranscriptsEnded /\ input.continue_after_error) =>
           \A vid \in InBoth : Occurrences(vid) > 1

\* With continue_after_error, a call that fails between two that succeed.
C26_Witness ==
    /\ GetTranscriptsEnded
    /\ input.continue_after_error
    /\ Len(input.video_ids) >= 2
    /\ output.unretrievable_videos # << >>
    /\ DOMAIN output.data # {}
    /\ InBoth = {}

\* The last track of captionTracks with the given code that is routed to the
\* generated mapping (asr) or to the manually created one.
Routed(asr, code) ==
    { i \in DOMAIN input.tracks :
        /\ input.tracks[i].languageCode = code
        /\ (input.tracks[i].kind = "asr") = asr }

LastRouted(asr, code) ==
    CHOOSE i \in Routed(asr, code) : \A j \in Routed(asr, code) : j <= i

\* The transcript stored under the code is the one built from the track.
BuiltFrom(transcript, track) ==
    /\ transcript.url = track.baseUrl
    /\ transcript.language = track.name
    /\ transcript.language_code = track.languageCode
    /\ transcript.is_generated = (track.kind = "asr")

\* C27: build stores each caption track in one mapping, generated when its
\* kind is "asr" and manually_created otherwise, also without kind; every
\* Transcript of generated has is_generated true, every one of
\* manually_created false; under each code a mapping holds the transcript of
\* the last track routed to it with that code, whatever tracks the other
\* mapping got.
C27_RoutedByKindLastWins ==
    Built =>
        /\ DOMAIN output.generated = { code \in AsrCodes \cup OtherCodes : Routed(TRUE, code) # {} }
        /\ DOMAIN output.manually_created
               = { code \in AsrCodes \cup OtherCodes : Routed(FALSE, code) # {} }
        /\ \A code \in DOMAIN output.generated :
               /\ output.generated[code].is_generated
               /\ BuiltFrom(output.generated[code], input.tracks[LastRouted(TRUE, code)])
        /\ \A code \in DOMAIN output.manually_created :
               /\ ~output.manually_created[code].is_generated
               /\ BuiltFrom(output.manually_created[code],
                            input.tracks[LastRouted(FALSE, code)])

\* Two manually created English tracks of different URLs and a generated
\* English track between them: the mapping holds the later of the two.
C27_Witness ==
    /\ Built
    /\ Len(input.tracks) = 3
    /\ input.tracks[1].kind = Absent /\ input.tracks[1].languageCode = "en"
    /\ input.tracks[2].kind = "asr" /\ input.tracks[2].languageCode = "en"
    /\ input.tracks[3].kind = Absent /\ input.tracks[3].languageCode = "en"
    /\ input.tracks[1].baseUrl # input.tracks[3].baseUrl
    /\ output.manually_created["en"].url = input.tracks[3].baseUrl
    /\ output.generated["en"].url = input.tracks[2].baseUrl

\* C28: for every page text the extractor ends with a substring that starts
\* with "{" and ends with "}", or with YouTubeDataUnparsable, also when no
\* "{" follows the marker; nothing else is raised, and the depth is at least
\* 1 after every character scanned before the one that returns.
C28_ExtractorTotal ==
    Extracted =>
        \/ /\ output.kind = "exception"
           /\ output.type = "YouTubeDataUnparsable"
           /\ output.video_id = video_id
        \/ /\ output.kind = "str"
           /\ Len(output.value) >= 2
           /\ output.value[1] = "{"
           /\ output.value[Len(output.value)] = "}"
           /\ LET rest == Tail(output.value)
              IN  /\ \A j \in 1..(Len(rest) - 1) : DepthAfter(rest, j) >= 1
                  /\ DepthAfter(rest, Len(rest)) = 0

\* The step from the except clause into the next attempt.
Retry == pc = "except_request_blocked" /\ pc' = "fetch_video_html"

\* C29: given that every request returns, fetch ends with a TranscriptList
\* or an exception after at most 2 * max(1, N) watch-page requests: a retry
\* raises try_number by one, no other step (the consent re-fetch included)
\* changes it, and no attempt sends more than two watch-page requests.
C29_FetchTerminatesWithinBound ==
    /\ [](Cardinality(WatchRequests) <= 2 * Max(1, N))
    /\ [](\A try \in 0..try_number : Cardinality(WatchRequestsOf(try)) \in {0, 1, 2})
    /\ [](Returned => result.kind \in {"TranscriptList", "exception"})
    /\ [][Retry => try_number' = try_number + 1]_vars
    /\ [][~Retry => try_number' = try_number]_vars
    /\ <>Returned

\* Two attempts, each with a consent page and a re-fetch: four watch-page
\* requests with retries_when_blocked = 2.
C29_Witness ==
    /\ Returned
    /\ N = 2
    /\ try_number = 1
    /\ Cardinality(WatchRequests) = 4
    /\ Cardinality(WatchRequestsOf(0)) = 2
    /\ Cardinality(WatchRequestsOf(1)) = 2

\* C30: whatever lists were assigned to translation_languages before the
\* call, translate(code) returns a Transcript exactly when code is the
\* language code of an entry of the list the field holds at the call.
C30_TranslateFollowsAssignedLanguages ==
    TranslateEnded => (output.kind = "Transcript" <=> input.language_code \in TranslationCodes)

====
